---- MODULE Spec2Model ----
(***************************************************************************)
(* Image-generation orchestration layer:                                   *)
(*   services/image_gen_service.py  generate_image_gemini (SingleCall-     *)
(*                                  Client), generate_image_with_rate_limit *)
(*                                  (RateGate)                              *)
(*   services/whisk_service.py      WhiskClient (RemoteWorkflowClient),     *)
(*                                  generate_image (FallbackOrchestrator)   *)
(* The program is sequential.  pc is the position of the single thread of  *)
(* control, stack the return positions of the callers, ret the value or    *)
(* exception the last finished call handed to its caller.  trace is the    *)
(* history of the run in the order it happened: network requests, sleeps,  *)
(* and the entering and leaving of each function.  Every network request and every sleep is   *)
(* one action; the code between two such suspension points belongs to the  *)
(* action of the earlier one.  Durations are in milliseconds.              *)
(***************************************************************************)
EXTENDS Integers, Sequences, FiniteSets, TLC

VARIABLES
    pc,          \* position of the thread of control
    stack,       \* return positions of the callers, innermost first
    ret,         \* result of the last finished call
    trace,       \* history of network requests and sleeps
    entry,       \* the operation the caller invoked
    pool,        \* key_manager: the Google API keys, after refresh()
    keys,        \* generate_image_gemini: keys
    key_idx,     \* generate_image_gemini: key_idx (1-based here)
    last_error,  \* generate_image_gemini: last_error
    retry_after, \* generate_image_gemini: retry_after
    g_base,      \* position in trace where the running generate_image_gemini began
    delay,       \* generate_image_with_rate_limit: delay
    session_tokens,   \* config: is a session token (upload credential) configured
    oauth_tokens,     \* config: is an OAuth token (generation credential) configured
    reference_images, \* generate_with_references: reference_images
    aspect_ratio,     \* generate_with_references: aspect_ratio
    workflow,         \* number of workflow ids drawn so far (uuid4, time.time)
    media_ids,        \* generate_with_references: media_ids
    img_i,            \* generate_with_references: position of the upload loop
    model_image,      \* generate_image: model_image (0 is None)
    product_image,    \* generate_image: product_image (0 is None)
    whisk_error,      \* generate_image: whisk_error
    prompt,           \* prompt of the request in hand (generate_image,
                      \* generate_with_references, generate_image_with_rate_limit)
    g_prompt,         \* generate_image_gemini: prompt
    scenes,           \* ImageGenerationWorker: outline['scenes']
    versions,         \* ImageGenerationWorker: outline['social_media']['versions']
    use_whisk,        \* ImageGenerationWorker: use_whisk
    model_paths,      \* ImageGenerationWorker: model_paths
    prod_paths,       \* ImageGenerationWorker: prod_paths
    should_stop,      \* ImageGenerationWorker: should_stop
    b_i,              \* ImageGenerationWorker.run: i of the running loop (1-based here)
    stop_seen,        \* history: where the run was when stop() was called
    faults,           \* unusual outcomes the environment of a batch run may still produce
    cfg_ratio,        \* ImageGenerationWorker: cfg['ratio'], the aspect ratio chosen in the panel
    has_sink,         \* the caller handed a log_callback / debug_callback to the operation
    sink,             \* number of messages delivered to that callback so far
    btn_script,       \* VideoBanHangPanel: btn_script is enabled
    btn_images,       \* VideoBanHangPanel: btn_images is enabled
    btn_video,        \* VideoBanHangPanel: btn_video is enabled
    last_outline,     \* VideoBanHangPanel: last_outline
    script_worker,    \* the ScriptWorker threads started, and whether one runs
    img_workers,      \* the ImageGenerationWorker threads started, in order
    signals           \* signals of the workers queued for the thread of the panel

gvars == <<pool, keys, key_idx, last_error, retry_after, g_base>>
cfgvars == <<session_tokens, oauth_tokens, has_sink, cfg_ratio>>
wvars == <<reference_images, aspect_ratio, workflow, media_ids, img_i>>
ovars == <<model_image, product_image, whisk_error>>
pvars == <<prompt, g_prompt>>
uivars == <<btn_script, btn_images, btn_video, last_outline, script_worker,
           img_workers, signals>>
bvars == <<scenes, versions, use_whisk, model_paths, prod_paths, should_stop, b_i,
          stop_seen>>
vars == <<pc, stack, ret, trace, entry, pool, keys, key_idx, last_error,
          retry_after, g_base, delay, session_tokens, oauth_tokens,
          reference_images, aspect_ratio, workflow, media_ids, img_i,
          model_image, product_image, whisk_error, prompt, g_prompt,
          scenes, versions, use_whisk, model_paths, prod_paths, should_stop,
          b_i, stop_seen, faults, has_sink, cfg_ratio, sink, btn_script, btn_images,
          btn_video, last_outline, script_worker, img_workers, signals>>

(***************************************************************************)
(* Bounds                                                                  *)
(***************************************************************************)
\* most keys of the pool when generate_image_gemini is the operation invoked
MaxKeys == 3
\* most keys of the pool when generate_image_with_rate_limit is invoked
MaxGateKeys == 1
\* most keys of the pool when the workflow or generate_image is invoked
MaxFallbackKeys == 2
\* most reference images handed to generate_with_references
MaxRefs == 4
\* most scenes and most thumbnail versions of the outline of a batch run
MaxScenes == 2
MaxVersions == 2
\* most items (scenes and versions together) of the outline of a batch run
MaxItems == 3
\* most keys of the pool in a batch run
MaxBatchKeys == 2
\* most unusual outcomes the environment produces in one batch run
MaxFaults == 1
\* most scripts written, most image runs started and most provider calls of
\* one image run, in a session of the panel
MaxScripts == 2
MaxRuns == 2
MaxCalls == 2

(***************************************************************************)
(* Program constants                                                       *)
(***************************************************************************)
RETRY_DELAY == 2500
DEFAULT_RETRY_AFTER == 60
RATE_LIMIT_COOLDOWN == 60
BATCH_DELAY == 8000

Ms(seconds) == seconds * 1000

(***************************************************************************)
(* Texts.  An exception message is the sequence of its fragments: the      *)
(* literal of the raise statement followed by what it interpolates.        *)
(***************************************************************************)
MSG_NO_KEYS == "No Google API keys available"
MSG_EXHAUSTED == "All API keys exhausted quota"
MSG_NO_IMAGE == "No image data in response: "
MSG_FAILED == "Image generation failed: "
MSG_FAILED_ALL == "Image generation failed with all keys"

\* Texts the environment supplies: str() of a requests exception (it embeds
\* the request URL, hence the API key) and the text of a response part.
TXT_TIMEOUT == "Read timed out."
TXT_URL_429 == "Max retries exceeded with url: /v1beta/models/img?key=AIza429x"
TXT_SERVER == "500 Server Error for url: /v1beta/models/img"
TXT_CAPTION == "a caption"
TXT_RATE == "Rate Limit reached for model"

\* '429' in s
Has429(s) == s \in {TXT_URL_429}

\* s.lower()
Lower(s) ==
    CASE s = TXT_RATE -> "rate limit reached for model"
      [] s = TXT_TIMEOUT -> "read timed out."
      [] s = TXT_URL_429 -> "max retries exceeded with url: /v1beta/models/img?key=aiza429x"
      [] s = TXT_SERVER -> "500 server error for url: /v1beta/models/img"
      [] s = MSG_NO_KEYS -> "no google api keys available"
      [] s = MSG_EXHAUSTED -> "all api keys exhausted quota"
      [] s = MSG_NO_IMAGE -> "no image data in response: "
      [] s = MSG_FAILED -> "image generation failed: "
      [] s = MSG_FAILED_ALL -> "image generation failed with all keys"
      [] OTHER -> s

\* 'rate limit' in s, for a lower-cased s
HasRateLimit(s) == s \in {"rate limit reached for model"}

(***************************************************************************)
(* Values handed between caller and callee                                 *)
(***************************************************************************)
NoBytes == <<"none">>
EmptyBytes == <<>>

Ok(by, b) == [kind |-> "ok", by |-> by, bytes |-> b, type |-> "", msg |-> <<>>]
Exc(by, t, m) == [kind |-> "exc", by |-> by, bytes |-> NoBytes, type |-> t, msg |-> m]
None(by) == [kind |-> "none", by |-> by, bytes |-> NoBytes, type |-> "", msg |-> <<>>]
NoRet == None("nobody")

NoError == [raised |-> FALSE, text |-> ""]
ReqError(t) == [raised |-> TRUE, text |-> t]

\* return to the caller with value v
Return(v) ==
    /\ ret' = v
    /\ pc' = Head(stack)
    /\ stack' = Tail(stack)

\* call the function that starts at position f and come back at position back
Call(f, back) ==
    /\ pc' = f
    /\ stack' = <<back>> \o stack

(***************************************************************************)
(* Provider G: what one POST can produce                                   *)
(***************************************************************************)
TextPart(t) == [inline |-> FALSE, data |-> t]
InlinePart(d) == [inline |-> TRUE, data |-> d]

\* base64 payloads of inlineData and what base64.b64decode makes of them
B64_A == "aW1nQQ=="
B64_B == "aW1nQg=="
B64_EMPTY == ""
b64decode(s) ==
    CASE s = B64_A -> <<"imgA">>
      [] s = B64_B -> <<"imgB">>
      [] OTHER -> EmptyBytes

\* response.json() of a 200 answer: the list under 'candidates' (<<>> when the
\* key is missing or the list is empty), each candidate the list of its parts
Bodies ==
    { <<>>,
      << <<>> >>,
      << <<TextPart(TXT_CAPTION)>> >>,
      << <<TextPart(TXT_RATE)>> >>,
      << <<InlinePart(B64_A)>> >>,
      << <<InlinePart(B64_EMPTY)>> >>,
      << <<TextPart(TXT_CAPTION), InlinePart(B64_B)>> >>,
      << <<InlinePart(B64_B), InlinePart(B64_A)>> >>,
      << <<TextPart(TXT_CAPTION)>>, <<InlinePart(B64_A)>> >> }

\* the Retry-After header of a 429 answer
HDR_ABSENT == "<absent>"
Hints == {HDR_ABSENT, "30", "soon"}

\* one outcome of requests.post: an answer, or a raised RequestException
Answer(s, h, b, t) ==
    [sent |-> TRUE, raised |-> FALSE, status |-> s, hint |-> h, body |-> b, text |-> t]
Raised(t) ==
    [sent |-> TRUE, raised |-> TRUE, status |-> 0, hint |-> HDR_ABSENT, body |-> <<>>, text |-> t]
\* the function raised before it sent anything
NotSent(t) ==
    [sent |-> FALSE, raised |-> TRUE, status |-> 0, hint |-> HDR_ABSENT, body |-> <<>>, text |-> t]

GOutcomes ==
    {Answer(200, HDR_ABSENT, b, "") : b \in Bodies}
    \cup {Answer(429, h, <<>>, "") : h \in Hints}
    \cup {Answer(500, HDR_ABSENT, <<>>, t) : t \in {TXT_SERVER}}
    \cup {Raised(t) : t \in {TXT_TIMEOUT, TXT_URL_429}}

\* the outcomes drawn when generate_image_gemini runs as the fallback of
\* generate_image: one of each kind
GOutcomesFallback ==
    {Answer(200, HDR_ABSENT, b, "") :
        b \in { <<>>, << <<InlinePart(B64_A)>> >>, << <<InlinePart(B64_EMPTY)>> >> }}
    \cup {Answer(429, HDR_ABSENT, <<>>, ""), Raised(TXT_TIMEOUT)}

\* the outcomes drawn in a batch run
GOutcomesBatch ==
    {Answer(200, HDR_ABSENT, b, "") :
        b \in { << <<InlinePart(B64_A)>> >>, << <<InlinePart(B64_EMPTY)>> >> }}
    \cup {Answer(429, HDR_ABSENT, <<>>, ""), Raised(TXT_URL_429)}

ProviderG ==
    CASE entry \in {"gemini", "rategate"} -> GOutcomes
      [] entry = "batch" -> GOutcomesBatch
      [] OTHER -> GOutcomesFallback

\* the usual outcome of a POST: an image
G_USUAL == Answer(200, HDR_ABSENT, << <<InlinePart(B64_A)>> >>, "")

\* A batch run makes many requests; its environment produces the usual outcome
\* of a request at any time and at most MaxFaults unusual events in one run: an
\* outcome of a request that is not the usual one, or a call of stop().
\* S: the outcomes of the request, usual: the usual one.
Offered(S, usual) == IF entry = "batch" /\ faults = 0 THEN {usual} ELSE S
Spent(o, usual) == IF entry = "batch" /\ o # usual THEN faults - 1 ELSE faults

\* trace events
\* arg: what a request of the workflow carries (its workflow, its media ids)
\* and the prompt it carries
NO_PROMPT == ""
NoArg == [wf |-> 0, mids |-> <<>>, aspect |-> "", prompt |-> NO_PROMPT]
Event(e, k, o, d, v, a) ==
    [ev |-> e, key |-> k, out |-> o, dur |-> d, val |-> v, arg |-> a]
Post(k, o) == Event("g_post", k, o, 0, NoRet, [NoArg EXCEPT !.prompt = g_prompt])
Sleep(d) == Event("sleep", 0, Raised(""), d, NoRet, NoArg)
\* the entering of function f; key: the messages delivered before it began
Enter(f) == Event("enter", sink, Raised(""), 0, None(f), NoArg)
Leave(v) == Event("leave", 0, Raised(""), 0, v, NoArg)

KeyLists(most) == {[i \in 1..n |-> i] : n \in 0..most}

(***************************************************************************)
(* The progress sink.  Each function logs through the callback it was      *)
(* handed, when it was handed one; sink counts the messages delivered.     *)
(***************************************************************************)
\* sink after n messages were logged through a callback that is there (cb) or not
Delivered(cb, n) == IF cb THEN sink + n ELSE sink

\* log_callback of the running generate_image_gemini: the rate gate passes its
\* own on (lines 150, 158), generate_image passes none (line 418)
GeminiLogs == has_sink /\ Head(stack) # "gi_gret"

\* generate_image_gemini, lines 91-118: the messages about an answer that is
\* no 429 (95 or 97, then 121 after raise_for_status; or 102, 106 when there
\* are candidates, and 114 or 117)
LoggedParsing(o) ==
    IF o.status # 200 THEN 2
    ELSE 2 + (IF o.body # <<>> THEN 1 ELSE 0)

\* lines 46-125: the messages of one pass of the loop over the keys, at key
\* idx of n (46, then 121 for a failed request, or 64 and: 68 for a 429, 74
\* and 80 as well when it is the last key; else those of the parsing)
LoggedPost(o, idx, n) ==
    1 + (IF o.raised THEN 1
         ELSE 1 + (IF o.status = 429 THEN (IF idx < n THEN 1 ELSE 3)
                   ELSE LoggedParsing(o)))

\* lines 83-125: the messages after the final retry (121 for a failed request,
\* 86 and those of the parsing for a 200, none before line 88 raises)
LoggedFinalPost(o) ==
    IF o.raised THEN 1
    ELSE IF o.status = 200 THEN 1 + LoggedParsing(o)
    ELSE 0

(***************************************************************************)
(* SingleCallClient: generate_image_gemini                                 *)
(***************************************************************************)
\* int(response.headers.get('Retry-After', 60)) with its except clause
IsDecimal(h) == h \in {"0", "30"}
IntOf(h) == CASE h = "0" -> 0 [] h = "30" -> 30 [] OTHER -> -1
RetryAfter(h) ==
    IF h = HDR_ABSENT THEN DEFAULT_RETRY_AFTER
    ELSE IF IsDecimal(h) THEN IntOf(h)
    ELSE DEFAULT_RETRY_AFTER

\* the first part of parts that has 'inlineData', 0 when there is none
FirstInline(parts) ==
    IF \E i \in DOMAIN parts : parts[i].inline
    THEN CHOOSE i \in DOMAIN parts :
            /\ parts[i].inline
            /\ \A j \in 1..(i - 1) : ~parts[j].inline
    ELSE 0

\* the part the extraction loop returns from, 0 when it raises
ImagePart(body) ==
    IF body # <<>> THEN FirstInline(body[1]) ELSE 0

\* str(data): the texts of the response, in order
RECURSIVE PartTexts(_)
PartTexts(parts) ==
    IF parts = <<>> THEN <<>> ELSE <<Head(parts).data>> \o PartTexts(Tail(parts))
RECURSIVE DataTexts(_)
DataTexts(body) ==
    IF body = <<>> THEN <<>> ELSE PartTexts(Head(body)) \o DataTexts(Tail(body))

\* what a step of generate_image_gemini leaves: the next position and locals,
\* or (to = "return") the value or exception that leaves the function
Cont(to, idx, le, ra) ==
    [to |-> to, key_idx |-> idx, last_error |-> le, retry_after |-> ra, ret |-> NoRet]
Fin(v, le) ==
    [to |-> "return", key_idx |-> key_idx, last_error |-> le,
     retry_after |-> retry_after, ret |-> v]

\* lines 127-129
AfterLoop(le) ==
    IF le.raised
    THEN Fin(Exc("gemini", "ImageGenError", <<MSG_FAILED, le.text>>), le)
    ELSE Fin(Exc("gemini", "ImageGenError", <<MSG_FAILED_ALL>>), le)

\* as OnRequestException, but the next key is tried without the wait
OnRequestException_NoWait(text) ==
    IF key_idx < Len(keys)
    THEN Cont("g_post", key_idx + 1, ReqError(text), retry_after)
    ELSE AfterLoop(ReqError(text))

\* lines 120-125: except requests.RequestException
OnRequestException(text) ==
    IF key_idx < Len(keys)
    THEN Cont("g_sleep_retry", key_idx, ReqError(text), retry_after)
    ELSE AfterLoop(ReqError(text))

\* as ParseAnswer, but an answer without image is retried like a failed request
ParseAnswer_RetriesNoImage(o) ==
    IF o.status # 200 THEN OnRequestException(o.text)
    ELSE IF ImagePart(o.body) # 0
    THEN Fin(Ok("gemini", b64decode(o.body[1][ImagePart(o.body)].data)), last_error)
    ELSE OnRequestException(MSG_NO_IMAGE)

\* lines 99-118: raise_for_status, then the extraction of the image
ParseAnswer(o) ==
    IF o.status # 200 THEN OnRequestException(o.text)
    ELSE IF ImagePart(o.body) # 0
    THEN Fin(Ok("gemini", b64decode(o.body[1][ImagePart(o.body)].data)), last_error)
    ELSE Fin(Exc("gemini", "ImageGenError", <<MSG_NO_IMAGE>> \o DataTexts(o.body)),
             last_error)

\* as On429, but the next key is tried after the retry delay
On429_WaitsBeforeNextKey(o) ==
    IF key_idx < Len(keys)
    THEN Cont("g_sleep_retry", key_idx, last_error, retry_after)
    ELSE Cont("g_sleep_final", key_idx, last_error, RetryAfter(o.hint))

\* lines 67-81: the answer is 429
On429(o) ==
    IF key_idx < Len(keys)
    THEN Cont("g_post", key_idx + 1, last_error, retry_after)
    ELSE Cont("g_sleep_final", key_idx, last_error, RetryAfter(o.hint))

\* as AfterPost, but every answer that is not 200 is taken as rate limiting
AfterPost_AnyErrorIsRateLimit(o) ==
    IF o.raised THEN OnRequestException(o.text)
    ELSE IF o.status # 200 THEN On429(o)
    ELSE ParseAnswer(o)

\* lines 62-125: what follows the POST of the loop body
AfterPost(o) ==
    IF o.raised THEN OnRequestException(o.text)
    ELSE IF o.status = 429 THEN On429(o)
    ELSE ParseAnswer(o)

\* as AfterFinalPost, but a final retry that is answered 429 is slept on and
\* sent again
AfterFinalPost_RetriesAgain(o) ==
    IF o.raised THEN OnRequestException(o.text)
    ELSE IF o.status = 200 THEN ParseAnswer(o)
    ELSE IF o.status = 429 THEN Cont("g_sleep_final", key_idx, last_error, retry_after)
    ELSE Fin(Exc("gemini", "ImageGenError", <<MSG_EXHAUSTED>>), last_error)

\* lines 83-88 and on: what follows the final retry
AfterFinalPost(o) ==
    IF o.raised THEN OnRequestException(o.text)
    ELSE IF o.status = 200 THEN ParseAnswer(o)
    ELSE Fin(Exc("gemini", "ImageGenError", <<MSG_EXHAUSTED>>), last_error)

\* as FinalRetryKey, but the key that was just rate limited
FinalRetryKey_Current == keys[key_idx]

\* line 83: the key of the final retry
FinalRetryKey == keys[1]

\* as NoKeys, but the check is missing
NoKeys_Unchecked(ks) == FALSE

\* line 36: if not keys
NoKeys(ks) == ks = <<>>

\* the step that did e and then r
GApply(e, r) ==
    /\ key_idx' = r.key_idx
    /\ last_error' = r.last_error
    /\ retry_after' = r.retry_after
    /\ IF r.to = "return"
       THEN /\ trace' = trace \o <<e, Leave(r.ret)>>
            /\ Return(r.ret)
       ELSE /\ trace' = Append(trace, e)
            /\ pc' = r.to
            /\ UNCHANGED <<stack, ret>>

\* lines 33-42
G_Start ==
    /\ pc = "g_start"
    /\ keys' = pool
    /\ g_base' = Len(trace) + 1
    /\ GApply(Enter("gemini"),
              IF NoKeys(pool)
              THEN Fin(Exc("gemini", "ImageGenError", <<MSG_NO_KEYS>>), NoError)
              ELSE Cont("g_post", 1, NoError, 0))
    /\ sink' = Delivered(GeminiLogs, IF NoKeys(pool) THEN 0 ELSE 1)
    /\ UNCHANGED <<entry, pool, delay>>
    /\ UNCHANGED <<cfgvars, uivars, wvars, ovars, pvars>>
    /\ UNCHANGED <<bvars, faults>>

\* line 62 and the rest of the loop body
G_Post ==
    /\ pc = "g_post"
    /\ \E o \in Offered(ProviderG, G_USUAL) :
          /\ GApply(Post(keys[key_idx], o), AfterPost(o))
          /\ faults' = Spent(o, G_USUAL)
          /\ sink' = Delivered(GeminiLogs, LoggedPost(o, key_idx, Len(keys)))
    /\ UNCHANGED <<entry, pool, keys, g_base, delay>>
    /\ UNCHANGED <<cfgvars, uivars, wvars, ovars, pvars>>
    /\ UNCHANGED bvars

\* line 124
G_SleepRetry ==
    /\ pc = "g_sleep_retry"
    /\ GApply(Sleep(RETRY_DELAY), Cont("g_post", key_idx + 1, last_error, retry_after))
    /\ UNCHANGED <<entry, pool, keys, g_base, delay>>
    /\ UNCHANGED <<cfgvars, uivars, wvars, ovars, pvars>>
    /\ UNCHANGED <<bvars, faults, sink>>

\* line 81
G_SleepFinal ==
    /\ pc = "g_sleep_final"
    /\ GApply(Sleep(Ms(retry_after)), Cont("g_final_post", key_idx, last_error, retry_after))
    /\ UNCHANGED <<entry, pool, keys, g_base, delay>>
    /\ UNCHANGED <<cfgvars, uivars, wvars, ovars, pvars>>
    /\ UNCHANGED <<bvars, faults, sink>>

\* line 83 and what follows it
G_FinalPost ==
    /\ pc = "g_final_post"
    /\ \E o \in Offered(ProviderG, G_USUAL) :
          /\ GApply(Post(FinalRetryKey, o), AfterFinalPost(o))
          /\ faults' = Spent(o, G_USUAL)
          /\ sink' = Delivered(GeminiLogs, LoggedFinalPost(o))
    /\ UNCHANGED <<entry, pool, keys, g_base, delay>>
    /\ UNCHANGED <<cfgvars, uivars, wvars, ovars, pvars>>
    /\ UNCHANGED bvars

(***************************************************************************)
(* RateGate: generate_image_with_rate_limit                                *)
(***************************************************************************)
\* as IndicatesRateLimit, but every failure is taken as rate limiting
IndicatesRateLimit_AnyFailure(msg) == TRUE

\* as IndicatesRateLimit, but the message is not lower-cased
IndicatesRateLimit_CaseSensitive(msg) ==
    \E i \in DOMAIN msg : Has429(msg[i]) \/ HasRateLimit(msg[i])

\* line 153: '429' in str(e) or 'rate limit' in str(e).lower()
IndicatesRateLimit(msg) ==
    \E i \in DOMAIN msg : Has429(msg[i]) \/ HasRateLimit(Lower(msg[i]))

\* lines 145-150
RG_Enter ==
    /\ pc = "rg_enter"
    /\ trace' = trace \o <<[Enter("rategate") EXCEPT !.dur = delay]>>
                       \o (IF delay > 0 THEN <<Sleep(delay)>> ELSE <<>>)
    /\ g_prompt' = prompt
    /\ sink' = Delivered(has_sink, IF delay > 0 THEN 1 ELSE 0)
    /\ Call("g_start", "rg_ret1")
    /\ UNCHANGED <<ret, entry, gvars, delay>>
    /\ UNCHANGED <<cfgvars, uivars, wvars, ovars, prompt>>
    /\ UNCHANGED <<bvars, faults>>

\* the function leaves with value v
RG_Leave(v) ==
    /\ trace' = Append(trace, Leave(v))
    /\ Return(v)

\* lines 150-165: the first call came back
RG_Ret1 ==
    /\ pc = "rg_ret1"
    /\ IF ret.kind = "exc"
       THEN IF IndicatesRateLimit(ret.msg)
            THEN /\ pc' = "rg_cooldown"
                 /\ UNCHANGED <<stack, ret, trace>>
            ELSE RG_Leave(None("rategate"))
       ELSE RG_Leave([ret EXCEPT !.by = "rategate"])
    /\ sink' = Delivered(has_sink, IF ret.kind = "exc" THEN 1 ELSE 0)
    /\ UNCHANGED <<entry, gvars, delay>>
    /\ UNCHANGED <<cfgvars, uivars, wvars, ovars, pvars>>
    /\ UNCHANGED <<bvars, faults>>

\* lines 156-158
RG_Cooldown ==
    /\ pc = "rg_cooldown"
    /\ trace' = Append(trace, Sleep(Ms(RATE_LIMIT_COOLDOWN)))
    /\ g_prompt' = prompt
    /\ Call("g_start", "rg_ret2")
    /\ UNCHANGED <<ret, entry, gvars, delay>>
    /\ UNCHANGED <<cfgvars, uivars, wvars, ovars, prompt>>
    /\ UNCHANGED <<bvars, faults, sink>>

\* lines 158-162: the retry came back
RG_Ret2 ==
    /\ pc = "rg_ret2"
    /\ IF ret.kind = "exc"
       THEN RG_Leave(None("rategate"))
       ELSE RG_Leave([ret EXCEPT !.by = "rategate"])
    /\ sink' = Delivered(has_sink, IF ret.kind = "exc" THEN 1 ELSE 0)
    /\ UNCHANGED <<entry, gvars, delay>>
    /\ UNCHANGED <<cfgvars, uivars, wvars, ovars, pvars>>
    /\ UNCHANGED <<bvars, faults>>

\* stop_seen before stop() is called
NoStop == [between |-> FALSE, events |-> -1]

\* no ImageGenerationWorker exists
NoBatch ==
    /\ scenes = <<>>
    /\ versions = <<>>
    /\ use_whisk = FALSE
    /\ model_paths = <<>>
    /\ prod_paths = <<>>
    /\ should_stop = FALSE
    /\ b_i = 1
    /\ stop_seen = NoStop
    /\ faults = 0

\* the first entry of cb_ratio (line 467)
DEFAULT_RATIO == "9:16"

\* outlines a ScriptWorker hands over, and last_outline before the first
NO_OUTLINE == "None"
EMPTY_OUTLINE == "{}"
SOME_OUTLINE == "{scenes, social_media}"

\* the panel is not part of the run
NoPanel ==
    /\ btn_script = FALSE
    /\ btn_images = FALSE
    /\ btn_video = FALSE
    /\ last_outline = NO_OUTLINE
    /\ script_worker = [started |-> 0, running |-> FALSE]
    /\ img_workers = <<>>
    /\ signals = <<>>

(***************************************************************************)
(* A caller invokes generate_image_gemini or generate_image_with_rate_limit *)
(***************************************************************************)
Delays == {0, BATCH_DELAY}
\* the prompt of the caller
USER_PROMPT == "a red shoe on a white table"

InitG ==
    /\ entry \in {"gemini", "rategate"}
    /\ pc = IF entry = "gemini" THEN "g_start" ELSE "rg_enter"
    /\ stack = <<"done">>
    /\ ret = NoRet
    /\ trace = <<>>
    /\ pool \in KeyLists(IF entry = "gemini" THEN MaxKeys ELSE MaxGateKeys)
    /\ keys = <<>>
    /\ key_idx = 1
    /\ last_error = NoError
    /\ retry_after = 0
    /\ g_base = 0
    /\ delay \in (IF entry = "gemini" THEN {0} ELSE Delays)
    /\ session_tokens = FALSE
    /\ oauth_tokens = FALSE
    /\ has_sink \in BOOLEAN
    /\ cfg_ratio = DEFAULT_RATIO
    /\ sink = 0
    /\ reference_images = <<>>
    /\ aspect_ratio = "9:16"
    /\ workflow = 0
    /\ media_ids = <<>>
    /\ img_i = 1
    /\ model_image = 0
    /\ product_image = 0
    /\ whisk_error = NoRet
    /\ prompt = USER_PROMPT
    /\ g_prompt = IF entry = "gemini" THEN prompt ELSE NO_PROMPT
    /\ NoBatch
    /\ NoPanel

NextG ==
    \/ G_Start
    \/ G_Post
    \/ G_SleepRetry
    \/ G_SleepFinal
    \/ G_FinalPost
    \/ RG_Enter
    \/ RG_Ret1
    \/ RG_Cooldown
    \/ RG_Ret2

SpecG == InitG /\ [][NextG]_vars

\* the thread of the caller keeps running: every request has a timeout and
\* every sleep a fixed length
SpecGFair == SpecG /\ WF_vars(NextG)

(***************************************************************************)
(* RemoteWorkflowClient: WhiskClient                                       *)
(***************************************************************************)
MAX_REFERENCE_IMAGES == 3

MSG_W_NO_SESSION == "No session token available for Whisk upload"
MSG_W_READ == "Failed to read image file: "
MSG_W_NO_MEDIA_ID == "No mediaGenerationId in response: "
MSG_W_UPLOAD_FAILED == "Upload request failed: "
MSG_W_NO_OAUTH == "No OAuth token available for Whisk generation"
MSG_W_NO_GENERATED == "No generatedImages in response: "
MSG_W_HTTP == "HTTP "
MSG_W_TIMEOUT == "Timeout after "
MSG_W_RECIPE_FAILED == "Recipe request failed: "
MSG_W_NO_UPLOADS == "No images uploaded"
MSG_W_NO_URL == "No image URL in response"
MSG_W_NO_RESULT_URL == "No imageUrl in result"
MSG_GEMINI_NO_DATA == "Gemini returned no data"
MSG_WHISK_FAILED == "Whisk failed: "
MSG_FALLBACK_FAILED == ". Gemini fallback failed: "
TXT_CONNECTION == "Connection aborted."
TXT_NOT_FOUND == "404 Client Error for url"

WhiskError(by, msg) == Exc(by, "WhiskError", msg)

\* the mediaGenerationId the upload endpoint gives to the upload of path p
MediaId(p) == <<"media", p>>
\* 'imageUrl' of a generatedImages entry; NO_URL when the entry has none
IMAGE_URL == "https://img/1"
NO_URL == ""
\* the bytes behind IMAGE_URL, and the content of an error answer
FETCHED == <<"imgW">>
ERROR_PAGE == <<"not found">>

\* the usual outcomes of the three requests of the workflow
UploadUsual(p) ==
    IF ~session_tokens THEN NotSent(MSG_W_NO_SESSION)
    ELSE Answer(200, HDR_ABSENT, <<MediaId(p)>>, "")
GENERATE_USUAL == Answer(200, HDR_ABSENT, <<IMAGE_URL>>, "")
FETCH_USUAL == Answer(200, HDR_ABSENT, <<FETCHED>>, "")

\* what upload_image can meet, for path p (in a batch run: one failure)
UploadOutcomes(p) ==
    IF ~session_tokens THEN {NotSent(MSG_W_NO_SESSION)}
    ELSE IF entry = "batch"
    THEN {Answer(500, HDR_ABSENT, <<>>, TXT_SERVER),
          Answer(200, HDR_ABSENT, <<MediaId(p)>>, "")}
    ELSE {NotSent(MSG_W_READ),
          Answer(500, HDR_ABSENT, <<>>, TXT_SERVER),
          Answer(200, HDR_ABSENT, <<>>, ""),
          Answer(200, HDR_ABSENT, <<MediaId(p)>>, "")}

\* lines 100-171: the media id upload_image returns, <<>> when it raises
UploadImage(o) ==
    IF o.sent /\ ~o.raised /\ o.status = 200 /\ o.body # <<>>
    THEN <<o.body[1]>>
    ELSE <<>>

\* what the POST of generate_with_media_ids can meet (in a batch run: two
\* failures)
GenerateOutcomes ==
    IF entry = "batch"
    THEN {Raised(TXT_TIMEOUT),
          Answer(500, HDR_ABSENT, <<>>, TXT_SERVER),
          Answer(200, HDR_ABSENT, <<IMAGE_URL>>, "")}
    ELSE
    {Raised(TXT_TIMEOUT), Raised(TXT_CONNECTION),
     Answer(500, HDR_ABSENT, <<>>, TXT_SERVER),
     Answer(200, HDR_ABSENT, <<>>, ""),
     Answer(200, HDR_ABSENT, <<NO_URL>>, ""),
     Answer(200, HDR_ABSENT, <<IMAGE_URL>>, "")}

\* lines 250-281 and 349-361: what generate_with_references leaves with
GenerateResult(o) ==
    IF o.raised
    THEN IF o.text = TXT_TIMEOUT
         THEN WhiskError("whisk", <<MSG_W_TIMEOUT>>)
         ELSE WhiskError("whisk", <<MSG_W_RECIPE_FAILED, o.text>>)
    ELSE IF o.status # 200 THEN WhiskError("whisk", <<MSG_W_HTTP, o.text>>)
    ELSE IF o.body = <<>> THEN WhiskError("whisk", <<MSG_W_NO_GENERATED>>)
    ELSE IF o.body[1] = NO_URL THEN WhiskError("whisk", <<MSG_W_NO_URL>>)
    ELSE Ok("whisk", <<o.body[1]>>)

\* as AspectValue, but an aspect ratio that is not in the map becomes square
AspectValue_DefaultSquare(a) ==
    CASE a = "9:16" -> "IMAGE_ASPECT_RATIO_PORTRAIT"
      [] a = "16:9" -> "IMAGE_ASPECT_RATIO_LANDSCAPE"
      [] a = "1:1" -> "IMAGE_ASPECT_RATIO_SQUARE"
      [] OTHER -> "IMAGE_ASPECT_RATIO_SQUARE"

\* lines 211-217
AspectValue(a) ==
    CASE a = "9:16" -> "IMAGE_ASPECT_RATIO_PORTRAIT"
      [] a = "16:9" -> "IMAGE_ASPECT_RATIO_LANDSCAPE"
      [] a = "1:1" -> "IMAGE_ASPECT_RATIO_SQUARE"
      [] OTHER -> "IMAGE_ASPECT_RATIO_PORTRAIT"

\* lines 62-65: the generation credential is the first OAuth token
OAuthToken == 1

Upload(p, o) ==
    Event("w_upload", p, o, 0, NoRet, [NoArg EXCEPT !.wf = workflow])
Generate(o) ==
    Event("w_generate", OAuthToken, o, 0, NoRet,
          [wf |-> workflow, mids |-> media_ids, aspect |-> AspectValue(aspect_ratio),
           prompt |-> prompt])
Fetch(o) == Event("w_fetch", 0, o, 0, NoRet, NoArg)

\* line 325: reference_images[:MAX_REFERENCE_IMAGES]
Capped(refs) ==
    SubSeq(refs, 1, IF Len(refs) < MAX_REFERENCE_IMAGES THEN Len(refs)
                    ELSE MAX_REFERENCE_IMAGES)

\* as NoMedia, but the check is missing
NoMedia_Unchecked(mids) == FALSE

\* line 337: if not media_ids
NoMedia(mids) == mids = <<>>

\* as Collected, but a failed upload drops what was collected before it
Collected_ResetOnFailure(mids, got) == IF got = <<>> THEN <<>> ELSE mids \o got

\* lines 328-330: media_ids after an upload that returned got (<<>>: it raised)
Collected(mids, got) == mids \o got

\* upload_image and lines 326-335: the messages of one upload (326; 102 and
\* 335 without session token; 335 when the file cannot be read; else 148 and:
\* 170, 335 for a failed request, 156 with 170, 335 or 163, 335 or 166, 331)
LoggedUpload(o) ==
    1 + (IF ~o.sent THEN (IF o.text = MSG_W_NO_SESSION THEN 2 ELSE 1)
         ELSE IF o.raised THEN 3
         ELSE 4)

\* lines 337-341: the messages after the upload loop (338 and 360, or 341)
LoggedAfterUploads(mids) == IF mids = <<>> THEN 2 ELSE 1

\* generate_with_media_ids and lines 349-361: the messages of the generate
\* step (252; 277 or 280, then 360 for a failed request; 260 and: 273, 360 or
\* 270, 360 or 267, 353, 360 or 267, 350)
LoggedGenerate(o) ==
    1 + (IF o.raised THEN 2
         ELSE 1 + (IF o.status = 200 /\ o.body # <<>> /\ o.body[1] = NO_URL THEN 3 ELSE 2))

\* the function leaves with value v, after the events es
W_Leave(es, v) ==
    /\ trace' = trace \o es \o <<Leave(v)>>
    /\ Return(v)

\* as FreshPair, but the pair is made once for the client and kept
FreshPair_PerClient(n) == 1

\* lines 317-319: str(uuid.uuid4()) and the millisecond timestamp, a pair no
\* earlier call drew; n: the pairs drawn so far
FreshPair(n) == n + 1

\* lines 313-326 (and 337-339 when there is nothing to upload)
W_Start ==
    /\ pc = "w_start"
    /\ workflow' = FreshPair(workflow)
    /\ media_ids' = <<>>
    /\ img_i' = 1
    /\ IF reference_images # <<>>
       THEN /\ trace' = Append(trace, Enter("whisk"))
            /\ pc' = "w_upload"
            /\ UNCHANGED <<stack, ret>>
       ELSE IF NoMedia(<<>>)
       THEN W_Leave(<<Enter("whisk")>>, WhiskError("whisk", <<MSG_W_NO_UPLOADS>>))
       ELSE /\ trace' = Append(trace, Enter("whisk"))
            /\ pc' = "w_generate"
            /\ UNCHANGED <<stack, ret>>
    /\ sink' = Delivered(has_sink, IF reference_images # <<>> THEN 2
                                    ELSE 1 + LoggedAfterUploads(<<>>))
    /\ UNCHANGED <<entry, gvars, delay, cfgvars, uivars, reference_images, aspect_ratio, ovars>>
    /\ UNCHANGED pvars
    /\ UNCHANGED <<bvars, faults>>

\* lines 325-339: one pass of the upload loop, and what follows the last one
W_Upload ==
    /\ pc = "w_upload"
    /\ \E o \in Offered(UploadOutcomes(reference_images[img_i]),
                        UploadUsual(reference_images[img_i])) :
          LET mids == Collected(media_ids, UploadImage(o))
              e == Upload(reference_images[img_i], o)
          IN  /\ media_ids' = mids
              /\ faults' = Spent(o, UploadUsual(reference_images[img_i]))
              /\ sink' = Delivered(has_sink,
                                   LoggedUpload(o)
                                   + (IF img_i < Len(Capped(reference_images)) THEN 0
                                      ELSE LoggedAfterUploads(mids)))
              /\ IF img_i < Len(Capped(reference_images))
                 THEN /\ img_i' = img_i + 1
                      /\ trace' = Append(trace, e)
                      /\ pc' = "w_upload"
                      /\ UNCHANGED <<stack, ret>>
                 ELSE /\ img_i' = img_i
                      /\ IF NoMedia(mids)
                         THEN W_Leave(<<e>>, WhiskError("whisk", <<MSG_W_NO_UPLOADS>>))
                         ELSE /\ trace' = Append(trace, e)
                              /\ pc' = "w_generate"
                              /\ UNCHANGED <<stack, ret>>
    /\ UNCHANGED <<entry, gvars, delay, cfgvars, uivars, reference_images, aspect_ratio,
                   workflow, ovars, pvars>>
    /\ UNCHANGED bvars

\* as GenerateAgain, but a request that timed out is sent once more
GenerateAgain_OnTimeout(o) == o.raised /\ o.text = TXT_TIMEOUT

\* lines 250-281: the POST is not in a loop, every branch after it returns or
\* raises, so no outcome o of the request leads to a second request
GenerateAgain(o) == FALSE

\* lines 344-361: generate_with_media_ids and what follows it
W_Generate ==
    /\ pc = "w_generate"
    /\ IF ~oauth_tokens
       THEN /\ W_Leave(<<>>, WhiskError("whisk", <<MSG_W_NO_OAUTH>>))
            /\ sink' = Delivered(has_sink, 1)
            /\ UNCHANGED faults
       ELSE \E o \in Offered(GenerateOutcomes, GENERATE_USUAL) :
               /\ faults' = Spent(o, GENERATE_USUAL)
               /\ sink' = Delivered(has_sink, LoggedGenerate(o))
               /\ IF GenerateAgain(o)
                  THEN /\ trace' = Append(trace, Generate(o))
                       /\ UNCHANGED <<pc, stack, ret>>
                  ELSE W_Leave(<<Generate(o)>>, GenerateResult(o))
    /\ UNCHANGED <<entry, gvars, delay, cfgvars, uivars, wvars, ovars, pvars>>
    /\ UNCHANGED bvars

(***************************************************************************)
(* FallbackOrchestrator: whisk_service.generate_image                      *)
(***************************************************************************)
\* what the GET of the image URL can meet
FetchOutcomes ==
    IF entry = "batch"
    THEN {Raised(TXT_TIMEOUT),
          Answer(200, HDR_ABSENT, <<FETCHED>>, ""),
          Answer(200, HDR_ABSENT, <<EmptyBytes>>, "")}
    ELSE
    {Raised(TXT_TIMEOUT),
     Answer(404, HDR_ABSENT, <<ERROR_PAGE>>, TXT_NOT_FOUND),
     Answer(200, HDR_ABSENT, <<FETCHED>>, ""),
     Answer(200, HDR_ABSENT, <<EmptyBytes>>, "")}

\* lines 393-397
References(model, product) ==
    (IF model # 0 THEN <<model>> ELSE <<>>) \o (IF product # 0 THEN <<product>> ELSE <<>>)

\* as FetchSucceeded, but the fallback is called whatever the download gave
FetchSucceeded_Never(o) == FALSE

\* as FetchSucceeded, but the status of the answer is not looked at
FetchSucceeded_AnyStatus(o) == ~o.raised

\* lines 408-410: the GET came back and raise_for_status let it pass
FetchSucceeded(o) == ~o.raised /\ o.status = 200

\* lines 390-404
GI_Start ==
    /\ pc = "gi_start"
    /\ trace' = Append(trace, Enter("orchestrator"))
    /\ reference_images' = References(model_image, product_image)
    /\ aspect_ratio' = "9:16"
    /\ Call("w_start", "gi_wret")
    /\ UNCHANGED <<ret, entry, gvars, delay, cfgvars, uivars, workflow, media_ids, img_i, ovars>>
    /\ UNCHANGED pvars
    /\ UNCHANGED <<bvars, faults, sink>>

\* lines 406-418: generate_with_references came back
GI_WhiskRet ==
    /\ pc = "gi_wret"
    /\ IF ret.kind = "ok"
       THEN /\ pc' = "gi_fetch"
            /\ UNCHANGED <<stack, whisk_error, g_prompt>>
       ELSE /\ whisk_error' = ret
            /\ g_prompt' = prompt
            /\ Call("g_start", "gi_gret")
    /\ UNCHANGED <<ret, trace, entry, gvars, delay, cfgvars, uivars, wvars, model_image,
                   product_image, prompt>>
    /\ UNCHANGED <<bvars, faults, sink>>

\* lines 408-418: the download, and the fallback when it fails
GI_Fetch ==
    /\ pc = "gi_fetch"
    /\ \E o \in Offered(FetchOutcomes, FETCH_USUAL) :
          /\ faults' = Spent(o, FETCH_USUAL)
          /\ IF FetchSucceeded(o)
             THEN /\ trace' = trace \o <<Fetch(o), Leave(Ok("orchestrator", o.body[1]))>>
                  /\ Return(Ok("orchestrator", o.body[1]))
                  /\ UNCHANGED <<whisk_error, g_prompt>>
             ELSE /\ trace' = Append(trace, Fetch(o))
                  /\ whisk_error' = Exc("fetch", "RequestException", <<o.text>>)
                  /\ g_prompt' = prompt
                  /\ Call("g_start", "gi_gret")
                  /\ UNCHANGED ret
    /\ UNCHANGED <<entry, gvars, delay, cfgvars, uivars, wvars, model_image, product_image,
                   prompt>>
    /\ UNCHANGED <<bvars, sink>>

\* the combined error: what Whisk failed with, then what the fallback failed with
BothFailed(werr, gmsg) ==
    WhiskError("orchestrator",
               <<MSG_WHISK_FAILED>> \o werr.msg \o <<MSG_FALLBACK_FAILED>> \o gmsg)

\* as FallbackResult, but the image of the fallback is dropped
FallbackResult_Dropped(r, werr) ==
    BothFailed(werr, IF r.kind = "ok" THEN <<MSG_GEMINI_NO_DATA>> ELSE r.msg)

\* lines 418-423: what generate_image leaves with when generate_image_gemini
\* came back with r after Whisk failed with werr
FallbackResult(r, werr) ==
    IF r.kind = "ok" /\ r.bytes # EmptyBytes
    THEN Ok("orchestrator", r.bytes)
    ELSE BothFailed(werr, IF r.kind = "ok" THEN <<MSG_GEMINI_NO_DATA>> ELSE r.msg)

\* lines 418-423: generate_image_gemini came back
GI_GeminiRet ==
    /\ pc = "gi_gret"
    /\ LET v == FallbackResult(ret, whisk_error)
       IN  /\ trace' = Append(trace, Leave(v))
           /\ Return(v)
    /\ UNCHANGED <<entry, gvars, delay, cfgvars, uivars, wvars, ovars, pvars>>
    /\ UNCHANGED <<bvars, faults, sink>>

(***************************************************************************)
(* A caller invokes generate_with_references or generate_image             *)
(***************************************************************************)
RefLists(most) == {[i \in 1..n |-> i] : n \in 0..most}
AspectRatios == {"9:16", "16:9", "1:1", "4:5"}

InitW ==
    /\ entry \in {"whisk", "orchestrator"}
    /\ pc = IF entry = "whisk" THEN "w_start" ELSE "gi_start"
    /\ stack = <<"done">>
    /\ ret = NoRet
    /\ trace = <<>>
    /\ pool \in KeyLists(MaxFallbackKeys)
    /\ entry = "whisk" => pool = <<>>
    /\ keys = <<>>
    /\ key_idx = 1
    /\ last_error = NoError
    /\ retry_after = 0
    /\ g_base = 0
    /\ delay = 0
    /\ session_tokens \in BOOLEAN
    /\ oauth_tokens \in BOOLEAN
    /\ has_sink \in BOOLEAN
    /\ cfg_ratio = DEFAULT_RATIO
    /\ sink = 0
    /\ reference_images \in (IF entry = "whisk" THEN RefLists(MaxRefs) ELSE {<<>>})
    /\ aspect_ratio \in (IF entry = "whisk" THEN AspectRatios ELSE {"9:16"})
    /\ workflow = 0
    /\ media_ids = <<>>
    /\ img_i = 1
    /\ model_image \in (IF entry = "whisk" THEN {0} ELSE {0, 1})
    /\ product_image \in (IF entry = "whisk" THEN {0} ELSE {0, 2})
    /\ whisk_error = NoRet
    /\ prompt = USER_PROMPT
    /\ g_prompt = NO_PROMPT
    /\ NoBatch
    /\ NoPanel

NextW ==
    \/ W_Start
    \/ W_Upload
    \/ W_Generate
    \/ GI_Start
    \/ GI_WhiskRet
    \/ GI_Fetch
    \/ GI_GeminiRet
    \/ G_Start
    \/ G_Post
    \/ G_SleepRetry
    \/ G_SleepFinal
    \/ G_FinalPost

SpecW == InitW /\ [][NextW]_vars

(***************************************************************************)
(* BatchPipeline: ImageGenerationWorker (ui/video_ban_hang_panel.py)       *)
(* run() is one more caller on the same thread of control; stop() is       *)
(* called from the thread of the user interface and only sets should_stop. *)
(* The signals run() emits are events of trace, with the loop index of the *)
(* item (1-based) as key.                                                  *)
(***************************************************************************)
\* lines 217 and 253: the delay handed to generate_image_with_rate_limit
WORKER_DELAY == 8000

\* an element of the outline that is not a dict: its .get raises AttributeError
MALFORMED == "<not a dict>"
\* scene['prompt_image'] and version['thumbnail_prompt'] of element i
ScenePrompt(i) == "prompt_image " \o ToString(i)
ThumbPrompt(i) == "thumbnail_prompt " \o ToString(i)

\* the texts of the progress signal, by what they say
SAY_SCENE == "Tao anh canh"
SAY_WHISK_OK == "Whisk ok"
SAY_WHISK_FAILED == "Whisk failed"
SAY_USE_GEMINI == "Dung Gemini"
SAY_GEMINI_OK == "Gemini ok"
SAY_NO_IMAGE == "Khong tao duoc anh"
SAY_THUMB == "Tao thumbnail phien ban"
SAY_THUMB_OK == "Thumbnail ok"
SAY_THUMB_NONE == "Thumbnail: Khong tao duoc"
SAY_THUMB_ERROR == "Thumbnail loi"
SAY_RUN_ERROR == "Loi"

\* the payload of an event that is no request
Text(t) ==
    [sent |-> FALSE, raised |-> FALSE, status |-> 0, hint |-> HDR_ABSENT,
     body |-> <<>>, text |-> t]

\* the signals of the worker
Progress(t, i) == Event("progress", i, Text(t), 0, NoRet, NoArg)
SceneImageReady(i, bytes) ==
    Event("scene_image_ready", i, Text(""), 0, Ok("worker", bytes), NoArg)
ThumbnailReady(i, bytes) ==
    Event("thumbnail_ready", i, Text(""), 0, Ok("worker", bytes), NoArg)
Finished(success) ==
    Event("finished", 0, Text(IF success THEN "True" ELSE "False"), 0, NoRet, NoArg)

\* `if img_data:` and `if thumb_data:`: bytes, and not empty
Truthy(v) == v.kind = "ok" /\ v.bytes # EmptyBytes

\* what sscript.generate_thumbnail_with_text makes of an image
Overlaid(bytes) == <<"overlay">> \o bytes

\* line 195: if self.use_whisk and self.model_paths and self.prod_paths
UseWhisk == use_whisk /\ model_paths # <<>> /\ prod_paths # <<>>

\* line 217: delay = 8.0 if i > 0 else 0 (i is 0-based in the code)
SceneDelay(i) == IF i - 1 > 0 THEN WORKER_DELAY ELSE 0

\* as ThumbDelay, but the scenes before the versions are not counted
ThumbDelay_IgnoresScenes(i) == IF i - 1 > 0 THEN WORKER_DELAY ELSE 0

\* line 253: delay = 8.0 if (len(scenes) + i) > 0 else 0
ThumbDelay(i) == IF Len(scenes) + (i - 1) > 0 THEN WORKER_DELAY ELSE 0

\* lines 184-186: the loop over the scenes is left at index i
SceneLoopEnds(i) == i > Len(scenes) \/ should_stop

\* as ThumbLoopEnds, but should_stop is not looked at
ThumbLoopEnds_IgnoresStop(i) == i > Len(versions)

\* lines 241-243: the loop over the versions is left at index i
ThumbLoopEnds(i) == i > Len(versions) \/ should_stop

\* as RunFailed, but the terminal signal is missing
RunFailed_Silent == <<Progress(SAY_RUN_ERROR, 0)>>

\* lines 291-293: an exception reached the outer handler
RunFailed == <<Progress(SAY_RUN_ERROR, 0), Finished(FALSE)>>

\* as AfterSceneGemini, but the result carries the 0-based index of the loop
AfterSceneGemini_OffByOne(i, v) ==
    IF Truthy(v)
    THEN <<Progress(SAY_GEMINI_OK, i), SceneImageReady(i - 1, v.bytes)>>
    ELSE <<Progress(SAY_NO_IMAGE, i)>>

\* lines 227-235: what the worker emits for scene i when the rate gate returned v
AfterSceneGemini(i, v) ==
    IF Truthy(v)
    THEN <<Progress(SAY_GEMINI_OK, i), SceneImageReady(i, v.bytes)>>
    ELSE <<Progress(SAY_NO_IMAGE, i)>>

\* as AfterSceneWhisk, but the result is emitted for empty bytes as well
AfterSceneWhisk_EmitsEmpty(i, v) ==
    IF Truthy(v)
    THEN <<Progress(SAY_WHISK_OK, i), SceneImageReady(i, v.bytes)>>
    ELSE <<SceneImageReady(i, v.bytes)>>

\* lines 206-235: what the worker emits for scene i when generate_image returned v
AfterSceneWhisk(i, v) ==
    IF Truthy(v)
    THEN <<Progress(SAY_WHISK_OK, i), SceneImageReady(i, v.bytes)>>
    ELSE <<>>

\* as AfterThumb, but a failed overlay step lets the image through as it is
AfterThumb_RawOnOverlayFailure(i, v, overlay_ok) ==
    IF Truthy(v)
    THEN IF overlay_ok
         THEN <<ThumbnailReady(i, Overlaid(v.bytes)), Progress(SAY_THUMB_OK, i)>>
         ELSE <<ThumbnailReady(i, v.bytes), Progress(SAY_THUMB_OK, i)>>
    ELSE <<Progress(SAY_THUMB_NONE, i)>>

\* lines 260-287: what the worker emits for version i when the rate gate
\* returned v and the overlay step succeeded or raised
AfterThumb(i, v, overlay_ok) ==
    IF Truthy(v)
    THEN IF overlay_ok
         THEN <<ThumbnailReady(i, Overlaid(v.bytes)), Progress(SAY_THUMB_OK, i)>>
         ELSE <<Progress(SAY_THUMB_ERROR, i)>>
    ELSE <<Progress(SAY_THUMB_NONE, i)>>

\* run() ends after the events es
B_Leave(es) ==
    /\ trace' = trace \o es
    /\ Return(None("worker"))

\* generate_image_with_rate_limit(p, d, ...) is called after the events es
B_CallRateGate(p, d, es, back) ==
    /\ trace' = trace \o es
    /\ prompt' = p
    /\ delay' = d
    /\ Call("rg_enter", back)

\* lines 184-225: the top of the loop over the scenes, up to the first call
\* (line 188 reads the scene to word the progress signal)
B_Scene ==
    /\ pc = "b_scene"
    /\ IF SceneLoopEnds(b_i)
       THEN /\ pc' = "b_thumb"
            /\ b_i' = 1
            /\ UNCHANGED <<stack, ret, trace, prompt, delay, model_image, product_image>>
       ELSE IF scenes[b_i] = MALFORMED
       THEN /\ B_Leave(RunFailed)
            /\ UNCHANGED <<prompt, delay, model_image, product_image, b_i>>
       ELSE IF UseWhisk
       THEN /\ trace' = Append(trace, Progress(SAY_SCENE, b_i))
            /\ prompt' = scenes[b_i]
            /\ model_image' = model_paths[1]
            /\ product_image' = prod_paths[1]
            /\ Call("gi_start", "b_scene_wret")
            /\ UNCHANGED <<ret, delay, b_i>>
       ELSE /\ B_CallRateGate(scenes[b_i], SceneDelay(b_i),
                              <<Progress(SAY_SCENE, b_i), Progress(SAY_USE_GEMINI, b_i)>>,
                              "b_scene_gret")
            /\ UNCHANGED <<ret, model_image, product_image, b_i>>
    /\ UNCHANGED <<entry, gvars, cfgvars, uivars, wvars, whisk_error, g_prompt, scenes,
                   versions, use_whisk, model_paths, prod_paths, should_stop,
                   stop_seen, faults, sink>>

\* lines 206-235: whisk_service.generate_image came back
B_SceneWhiskRet ==
    /\ pc = "b_scene_wret"
    /\ IF ret.kind = "ok"
       THEN /\ trace' = trace \o AfterSceneWhisk(b_i, ret)
            /\ pc' = "b_scene"
            /\ b_i' = b_i + 1
            /\ UNCHANGED <<stack, prompt, delay>>
       ELSE /\ B_CallRateGate(scenes[b_i], SceneDelay(b_i),
                              <<Progress(SAY_WHISK_FAILED, b_i),
                                Progress(SAY_USE_GEMINI, b_i)>>,
                              "b_scene_gret")
            /\ UNCHANGED b_i
    /\ UNCHANGED <<ret, entry, gvars, cfgvars, uivars, wvars, ovars, g_prompt, scenes,
                   versions, use_whisk, model_paths, prod_paths, should_stop,
                   stop_seen, faults, sink>>

\* lines 227-235: generate_image_with_rate_limit came back, for a scene
B_SceneGeminiRet ==
    /\ pc = "b_scene_gret"
    /\ trace' = trace \o AfterSceneGemini(b_i, ret)
    /\ pc' = "b_scene"
    /\ b_i' = b_i + 1
    /\ UNCHANGED <<stack, ret, entry, gvars, delay, cfgvars, uivars, wvars, ovars, pvars,
                   scenes, versions, use_whisk, model_paths, prod_paths,
                   should_stop, stop_seen, faults, sink>>

\* as RunEnded, but a run that gave no image ends with finished(False)
RunEnded_FailsWithoutImage ==
    <<Finished(\E j \in 1..Len(trace) :
                  trace[j].ev \in {"scene_image_ready", "thumbnail_ready"})>>

\* line 289: both loops were left without an exception
RunEnded == <<Finished(TRUE)>>

\* lines 238-258 and 289: the top of the loop over the versions (line 245
\* emits the progress signal before line 247 reads the version)
B_Thumb ==
    /\ pc = "b_thumb"
    /\ IF ThumbLoopEnds(b_i)
       THEN /\ B_Leave(RunEnded)
            /\ UNCHANGED <<prompt, delay>>
       ELSE IF versions[b_i] = MALFORMED
       THEN /\ B_Leave(<<Progress(SAY_THUMB, b_i)>> \o RunFailed)
            /\ UNCHANGED <<prompt, delay>>
       ELSE /\ B_CallRateGate(versions[b_i], ThumbDelay(b_i),
                              <<Progress(SAY_THUMB, b_i)>>, "b_thumb_ret")
            /\ UNCHANGED ret
    /\ UNCHANGED <<entry, gvars, cfgvars, uivars, wvars, ovars, g_prompt, bvars, faults, sink>>

\* lines 260-287: generate_image_with_rate_limit came back, for a version; the
\* overlay step works or raises
B_ThumbRet ==
    /\ pc = "b_thumb_ret"
    /\ \E overlay_ok \in (IF Truthy(ret) THEN Offered(BOOLEAN, TRUE) ELSE {TRUE}) :
          /\ trace' = trace \o AfterThumb(b_i, ret, overlay_ok)
          /\ faults' = Spent(overlay_ok, TRUE)
    /\ pc' = "b_thumb"
    /\ b_i' = b_i + 1
    /\ UNCHANGED <<stack, ret, entry, gvars, delay, cfgvars, uivars, wvars, ovars, pvars,
                   scenes, versions, use_whisk, model_paths, prod_paths, should_stop,
                   stop_seen, sink>>

\* the signal that begins an item: the first progress signal of its iteration
BeginsItem(e) == e.ev = "progress" /\ e.out.text \in {SAY_SCENE, SAY_THUMB}

\* position in tr of the last signal that begins an item, 0 when there is none
RECURSIVE LastBegin(_)
LastBegin(tr) ==
    IF tr = <<>> THEN 0
    ELSE IF BeginsItem(tr[Len(tr)]) THEN Len(tr)
    ELSE LastBegin(SubSeq(tr, 1, Len(tr) - 1))

\* what stop_seen keeps of the moment stop() is called: whether the run was
\* between two items, and how much of trace was there: all of it when between
\* two items, and up to the signal that began the item in hand otherwise
SeenAtStop ==
    LET between == pc \in {"b_scene", "b_thumb"}
    IN  [between |-> between,
         events |-> IF between THEN Len(trace) ELSE LastBegin(trace)]

\* lines 295-296: stop(), at any time while run() is running (a call of
\* stop() counts as one of the unusual events of the run)
Stop ==
    /\ entry = "batch"
    /\ pc # "done"
    /\ ~should_stop
    /\ faults > 0
    /\ faults' = faults - 1
    /\ should_stop' = TRUE
    /\ stop_seen' = SeenAtStop
    /\ UNCHANGED <<pc, stack, ret, trace, entry, gvars, delay, cfgvars, uivars, wvars, ovars,
                   pvars, scenes, versions, use_whisk, model_paths, prod_paths, b_i,
                   sink>>

(***************************************************************************)
(* The user interface starts a worker                                      *)
(***************************************************************************)
\* the outlines: n scenes and m versions, all well formed, or one element
\* malformed
WellFormed(n, m) ==
    [scenes |-> [i \in 1..n |-> ScenePrompt(i)],
     versions |-> [i \in 1..m |-> ThumbPrompt(i)]]
Sizes == {s \in (0..MaxScenes) \X (0..MaxVersions) : s[1] + s[2] <= MaxItems}
Outlines ==
    {WellFormed(s[1], s[2]) : s \in Sizes}
    \cup UNION {{[WellFormed(s[1], s[2]) EXCEPT !.scenes[k] = MALFORMED] : k \in 1..s[1]} :
                   s \in Sizes}
    \cup UNION {{[WellFormed(s[1], s[2]) EXCEPT !.versions[k] = MALFORMED] : k \in 1..s[2]} :
                   s \in Sizes}

\* use_whisk, model_paths, prod_paths, whether the configuration holds an
\* OAuth token for Whisk, and the aspect ratio chosen in the panel (line 467)
WorkerSettings ==
    {<<FALSE, <<1>>, <<2>>, TRUE, "9:16">>, <<TRUE, <<1>>, <<>>, TRUE, "4:5">>,
     <<TRUE, <<1>>, <<2>>, TRUE, "16:9">>, <<TRUE, <<1>>, <<2>>, FALSE, "1:1">>}

InitB ==
    /\ entry = "batch"
    /\ pc = "b_scene"
    /\ stack = <<"done">>
    /\ ret = NoRet
    /\ trace = <<>>
    /\ pool \in KeyLists(MaxBatchKeys)
    /\ keys = <<>>
    /\ key_idx = 1
    /\ last_error = NoError
    /\ retry_after = 0
    /\ g_base = 0
    /\ delay = 0
    /\ session_tokens = TRUE
    /\ has_sink = TRUE
    /\ sink = 0
    /\ reference_images = <<>>
    /\ aspect_ratio = "9:16"
    /\ workflow = 0
    /\ media_ids = <<>>
    /\ img_i = 1
    /\ model_image = 0
    /\ product_image = 0
    /\ whisk_error = NoRet
    /\ prompt = NO_PROMPT
    /\ g_prompt = NO_PROMPT
    /\ \E o \in Outlines : scenes = o.scenes /\ versions = o.versions
    /\ \E w \in WorkerSettings :
          /\ use_whisk = w[1] /\ model_paths = w[2] /\ prod_paths = w[3]
          /\ oauth_tokens = w[4]
          /\ cfg_ratio = w[5]
    /\ should_stop = FALSE
    /\ b_i = 1
    /\ stop_seen = NoStop
    /\ faults = MaxFaults
    /\ NoPanel

NextB ==
    \/ B_Scene
    \/ B_SceneWhiskRet
    \/ B_SceneGeminiRet
    \/ B_Thumb
    \/ B_ThumbRet
    \/ Stop
    \/ GI_Start
    \/ GI_WhiskRet
    \/ GI_Fetch
    \/ GI_GeminiRet
    \/ W_Start
    \/ W_Upload
    \/ W_Generate
    \/ RG_Enter
    \/ RG_Ret1
    \/ RG_Cooldown
    \/ RG_Ret2
    \/ G_Start
    \/ G_Post
    \/ G_SleepRetry
    \/ G_SleepFinal
    \/ G_FinalPost

SpecB == InitB /\ [][NextB]_vars

\* the steps of run() and of what it calls: all of NextB but stop()
B_Run ==
    \/ B_Scene
    \/ B_SceneWhiskRet
    \/ B_SceneGeminiRet
    \/ B_Thumb
    \/ B_ThumbRet
    \/ GI_Start
    \/ GI_WhiskRet
    \/ GI_Fetch
    \/ GI_GeminiRet
    \/ W_Start
    \/ W_Upload
    \/ W_Generate
    \/ RG_Enter
    \/ RG_Ret1
    \/ RG_Cooldown
    \/ RG_Ret2
    \/ G_Start
    \/ G_Post
    \/ G_SleepRetry
    \/ G_SleepFinal
    \/ G_FinalPost

\* the thread of the worker keeps running: every request and every sleep
\* returns (each has a timeout or a fixed length), and the thread is scheduled
SpecBFair == SpecB /\ WF_vars(B_Run)

(***************************************************************************)
(* VideoBanHangPanel: the buttons that start the workers                   *)
(* The handlers run on the thread of the panel, one at a time; a signal a  *)
(* worker emits is queued and handled there later.  An image worker is     *)
(* seen from outside here: run() is a sequence of provider calls, each     *)
(* begun and ended, and then the terminal signal.  The signals progress,   *)
(* scene_image_ready and thumbnail_ready change no button and are left out.*)
(***************************************************************************)
svars == <<pc, stack, ret, trace, entry, gvars, delay, cfgvars, wvars, ovars, pvars,
          bvars, faults, sink>>

\* lines 900: if not self.last_outline
NoOutline(o) == o \in {NO_OUTLINE, EMPTY_OUTLINE}

\* a worker thread that was just started
Started == [state |-> "running", calls |-> 0]

\* the image workers whose run() has not returned, and the provider calls in flight
Running == {w \in DOMAIN img_workers : img_workers[w].state # "ended"}
InFlight == {w \in DOMAIN img_workers : img_workers[w].state = "calling"}

\* lines 809-822: _on_write_script, on a click on btn_script
UI_WriteScript ==
    /\ btn_script
    /\ script_worker.started < MaxScripts
    /\ btn_script' = FALSE
    /\ script_worker' = [started |-> script_worker.started + 1, running |-> TRUE]
    /\ UNCHANGED <<btn_images, btn_video, last_outline, img_workers, signals, svars>>

\* ScriptWorker.run ends: it emits done(outline) or error(msg)
SW_End ==
    /\ script_worker.running
    /\ script_worker' = [script_worker EXCEPT !.running = FALSE]
    /\ \E sig \in {[sig |-> "done", outline |-> o, success |-> TRUE] :
                      o \in {EMPTY_OUTLINE, SOME_OUTLINE}}
                  \cup {[sig |-> "error", outline |-> NO_OUTLINE, success |-> FALSE]} :
          signals' = Append(signals, sig)
    /\ UNCHANGED <<btn_script, btn_images, btn_video, last_outline, img_workers, svars>>

\* as ScriptDoneEnables, but btn_images is left as it is while an image worker runs
ScriptDoneEnables_UnlessRunning(shown) == IF shown /\ Running = {} THEN TRUE ELSE btn_images

\* lines 825-852: btn_images after _on_script_done, whose display of the
\* outline went through (shown) or raised
ScriptDoneEnables(shown) == IF shown THEN TRUE ELSE btn_images

\* lines 824-858: _on_script_done
UI_ScriptDone ==
    /\ signals # <<>>
    /\ Head(signals).sig = "done"
    /\ signals' = Tail(signals)
    /\ last_outline' = Head(signals).outline
    /\ \E shown \in BOOLEAN : btn_images' = ScriptDoneEnables(shown)
    /\ btn_script' = TRUE
    /\ UNCHANGED <<btn_video, script_worker, img_workers, svars>>

\* lines 860-871: _on_script_error
UI_ScriptError ==
    /\ signals # <<>>
    /\ Head(signals).sig = "error"
    /\ signals' = Tail(signals)
    /\ btn_script' = TRUE
    /\ UNCHANGED <<btn_images, btn_video, last_outline, script_worker, img_workers, svars>>

\* lines 898-923: _on_generate_images, on a click on btn_images (without an
\* outline the handler warns and returns: nothing changes)
UI_GenerateImages ==
    /\ btn_images
    /\ Len(img_workers) < MaxRuns
    /\ ~NoOutline(last_outline)
    /\ btn_images' = FALSE
    /\ img_workers' = Append(img_workers, Started)
    /\ UNCHANGED <<btn_script, btn_video, last_outline, script_worker, signals, svars>>

\* run() of image worker w sends a request to a provider
IW_BeginCall(w) ==
    /\ img_workers[w].state = "running"
    /\ img_workers[w].calls < MaxCalls
    /\ img_workers' = [img_workers EXCEPT ![w] = [state |-> "calling", calls |-> @.calls + 1]]
    /\ UNCHANGED <<btn_script, btn_images, btn_video, last_outline, script_worker, signals,
                   svars>>

\* the request of image worker w comes back
IW_EndCall(w) ==
    /\ img_workers[w].state = "calling"
    /\ img_workers' = [img_workers EXCEPT ![w].state = "running"]
    /\ UNCHANGED <<btn_script, btn_images, btn_video, last_outline, script_worker, signals,
                   svars>>

\* lines 289-293: run() of image worker w emits finished and returns
IW_Finish(w) ==
    /\ img_workers[w].state = "running"
    /\ img_workers' = [img_workers EXCEPT ![w].state = "ended"]
    /\ \E success \in BOOLEAN :
          signals' = Append(signals, [sig |-> "finished", outline |-> NO_OUTLINE,
                                      success |-> success])
    /\ UNCHANGED <<btn_script, btn_images, btn_video, last_outline, script_worker, svars>>

\* lines 966-974: _on_images_finished
UI_ImagesFinished ==
    /\ signals # <<>>
    /\ Head(signals).sig = "finished"
    /\ signals' = Tail(signals)
    /\ btn_video' = (IF Head(signals).success THEN TRUE ELSE btn_video)
    /\ btn_images' = TRUE
    /\ UNCHANGED <<btn_script, last_outline, script_worker, img_workers, svars>>

\* lines 304-306 and 552-564: the panel after __init__
InitUI ==
    /\ entry = "panel"
    /\ pc = "done"
    /\ stack = <<>>
    /\ ret = NoRet
    /\ trace = <<>>
    /\ pool = <<>>
    /\ keys = <<>>
    /\ key_idx = 1
    /\ last_error = NoError
    /\ retry_after = 0
    /\ g_base = 0
    /\ delay = 0
    /\ session_tokens = FALSE
    /\ oauth_tokens = FALSE
    /\ has_sink = FALSE
    /\ cfg_ratio = DEFAULT_RATIO
    /\ sink = 0
    /\ reference_images = <<>>
    /\ aspect_ratio = "9:16"
    /\ workflow = 0
    /\ media_ids = <<>>
    /\ img_i = 1
    /\ model_image = 0
    /\ product_image = 0
    /\ whisk_error = NoRet
    /\ prompt = NO_PROMPT
    /\ g_prompt = NO_PROMPT
    /\ NoBatch
    /\ btn_script = TRUE
    /\ btn_images = FALSE
    /\ btn_video = FALSE
    /\ last_outline = NO_OUTLINE
    /\ script_worker = [started |-> 0, running |-> FALSE]
    /\ img_workers = <<>>
    /\ signals = <<>>

NextUI ==
    \/ UI_WriteScript
    \/ SW_End
    \/ UI_ScriptDone
    \/ UI_ScriptError
    \/ UI_GenerateImages
    \/ \E w \in DOMAIN img_workers : IW_BeginCall(w)
    \/ \E w \in DOMAIN img_workers : IW_EndCall(w)
    \/ \E w \in DOMAIN img_workers : IW_Finish(w)
    \/ UI_ImagesFinished

SpecUI == InitUI /\ [][NextUI]_vars

(***************************************************************************)
(* Properties of generate_image_gemini and generate_image_with_rate_limit   *)
(***************************************************************************)
\* generate_image_gemini is running, past its first step
InGemini == pc \in {"g_post", "g_sleep_retry", "g_sleep_final", "g_final_post"}

\* generate_image_gemini has just handed ret to its caller
GReturned == ret.by = "gemini" /\ pc \in {"done", "rg_ret1", "rg_ret2", "gi_gret"}

\* the requests and sleeps of the running (or just finished) call, in order
GSeg ==
    SelectSeq(SubSeq(trace, g_base + 1, Len(trace)),
              LAMBDA e : e.ev \in {"g_post", "sleep"})
GPosts == SelectSeq(GSeg, LAMBDA e : e.ev = "g_post")
GSleeps == SelectSeq(GSeg, LAMBDA e : e.ev = "sleep")

IsSleep(e, d) == e.ev = "sleep" /\ e.dur = d
IsEnter(e, f) == e.ev = "enter" /\ e.val.by = f
IsProgress(e, t, i) == e.ev = "progress" /\ e.out.text = t /\ e.key = i
IsLeave(e, f) == e.ev = "leave" /\ e.val.by = f
Is429(e) == e.ev = "g_post" /\ ~e.out.raised /\ e.out.status = 429
IsNetworkFailure(e) == e.ev = "g_post" /\ e.out.raised
\* a 200 answer whose first candidate has an inline image payload
Is200WithImage(e) ==
    /\ e.ev = "g_post" /\ ~e.out.raised /\ e.out.status = 200
    /\ e.out.body # <<>>
    /\ \E i \in DOMAIN e.out.body[1] : e.out.body[1][i].inline
Is200WithoutImage(e) ==
    /\ e.ev = "g_post" /\ ~e.out.raised /\ e.out.status = 200
    /\ ~Is200WithImage(e)
\* the decoded first inline payload of the first candidate
ImageOf(e) == b64decode(e.out.body[1][FirstInline(e.out.body[1])].data)

\* the retry hint of a 429 answer in seconds: 60 when absent or malformed
HintSeconds(e) ==
    CASE e.out.hint = "30" -> 30
      [] e.out.hint = "0" -> 0
      [] OTHER -> 60

\* event j of seg is the final retry: it follows the sleep that follows a 429
IsFinalRetry(seg, j) ==
    /\ j >= 3
    /\ seg[j].ev = "g_post"
    /\ seg[j - 1].ev = "sleep"
    /\ Is429(seg[j - 2])

\* the first m events of seg are requests answered 429, one per key, in order
RateLimitedPrefix(seg, m) ==
    /\ m <= Len(seg)
    /\ \A i \in 1..m : Is429(seg[i]) /\ seg[i].key = keys[i]

ErrorIs(v, literal) == v.kind = "exc" /\ v.type = "ImageGenError" /\ v.msg[1] = literal

\* C1: when every key but the last answers 429 and the last answers 200 with an
\* image, the call returns that image, each key was used exactly once in list
\* order, and nothing was slept between the rate-limited attempts.
C1_RotatesOn429WithoutDelay ==
    (InGemini \/ GReturned) /\ GPosts # <<>> =>
        LET n == Len(keys)
            m == Len(GPosts)
        IN  /\ (m < n /\ \A i \in 1..m : Is429(GPosts[i])) =>
                  /\ GSleeps = <<>>
                  /\ \A i \in 1..m : GPosts[i].key = keys[i]
                  /\ pc = "g_post" /\ key_idx = m + 1
            /\ (m = n /\ (\A i \in 1..(n - 1) : Is429(GPosts[i]))
                      /\ Is200WithImage(GPosts[n])) =>
                  /\ GSleeps = <<>>
                  /\ \A i \in 1..n : GPosts[i].key = keys[i]
                  /\ GReturned
                  /\ ret = Ok("gemini", ImageOf(GPosts[n]))

C1_Witness ==
    /\ GReturned /\ Len(keys) = 3 /\ Len(GPosts) = 3
    /\ Is429(GPosts[1]) /\ Is429(GPosts[2]) /\ Is200WithImage(GPosts[3])
    /\ ret.kind = "ok"

C3_FinalRetryFailureIsAllKeysExhausted ==
    (GReturned /\ keys # <<>> /\ RateLimitedPrefix(GSeg, Len(keys))
        /\ Len(GSeg) = Len(keys) + 2
        /\ (IsNetworkFailure(GSeg[Len(GSeg)]) \/ GSeg[Len(GSeg)].out.status # 200))
    => ErrorIs(ret, MSG_EXHAUSTED)

\* C4: with an empty key list the call fails with 'No Google API keys
\* available' and issues no request and no sleep.
C4_NoCredentialsNoCall ==
    /\ InGemini => keys # <<>>
    /\ (GReturned /\ keys = <<>>) =>
          /\ ret = Exc("gemini", "ImageGenError", <<MSG_NO_KEYS>>)
          /\ GSeg = <<>>
    /\ (GReturned /\ ErrorIs(ret, MSG_NO_KEYS)) => keys = <<>>

C4_Witness == GReturned /\ keys = <<>> /\ ret.kind = "exc" /\ trace # <<>>

\* C5: a network-level failure with key k (in the pass over the keys) is kept as
\* last_error; when keys remain the call waits the retry delay exactly once and
\* then tries key k + 1; when k is the last key the call fails at once with
\* 'Image generation failed: <that error>', without sleeping.  N keys that all
\* fail at network level make N requests and N - 1 sleeps.
C5_NetworkFailureWaitsThenNextKey ==
    (InGemini \/ GReturned) =>
        LET n == Len(keys)
            len == Len(GSeg)
        IN  /\ \A j \in 1..len :
                  (IsNetworkFailure(GSeg[j]) /\ ~IsFinalRetry(GSeg, j)) =>
                      LET k == GSeg[j].key
                          text == GSeg[j].out.text
                      IN  /\ k < n =>
                                /\ len = j =>
                                      pc = "g_sleep_retry" /\ last_error = ReqError(text)
                                /\ len >= j + 1 => IsSleep(GSeg[j + 1], RETRY_DELAY)
                                /\ len = j + 1 => pc = "g_post" /\ key_idx = k + 1
                                /\ len >= j + 2 =>
                                      GSeg[j + 2].ev = "g_post" /\ GSeg[j + 2].key = keys[k + 1]
                          /\ k = n =>
                                /\ len = j
                                /\ GReturned
                                /\ ret = Exc("gemini", "ImageGenError", <<MSG_FAILED, text>>)
            /\ (GReturned /\ GPosts # <<>> /\ \A i \in 1..Len(GPosts) : IsNetworkFailure(GPosts[i])) =>
                  Len(GPosts) = n /\ Len(GSleeps) = n - 1

C5_Witness ==
    /\ GReturned /\ Len(keys) = 3 /\ Len(GPosts) = 3 /\ Len(GSleeps) = 2
    /\ \A i \in 1..3 : IsNetworkFailure(GPosts[i])
    /\ ErrorIs(ret, MSG_FAILED)

\* C6: a 200 answer without an inline image payload in its first candidate ends
\* the call at once with 'No image data in response': no further key is tried,
\* nothing is slept, nothing is retried.
C6_NoImageDataIsFatal ==
    (InGemini \/ GReturned) =>
        \A j \in 1..Len(GSeg) :
            Is200WithoutImage(GSeg[j]) =>
                /\ j = Len(GSeg)
                /\ GReturned
                /\ ErrorIs(ret, MSG_NO_IMAGE)

C6_Witness ==
    /\ GReturned /\ Len(keys) >= 2 /\ Len(GSeg) = 1
    /\ Is200WithoutImage(GSeg[1])
    /\ ret.kind = "exc"

\* the calls of generate_image_gemini that have come back, in order
GLeaves == SelectSeq(trace, LAMBDA e : e.ev = "leave" /\ e.val.by = "gemini")
GEnters == SelectSeq(trace, LAMBDA e : e.ev = "enter" /\ e.val.by = "gemini")
\* position in trace of the i-th return of generate_image_gemini
RECURSIVE LeaveAt(_, _)
LeaveAt(i, from) ==
    IF trace[from].ev = "leave" /\ trace[from].val.by = "gemini"
    THEN IF i = 1 THEN from ELSE LeaveAt(i - 1, from + 1)
    ELSE LeaveAt(i, from + 1)

\* the message names rate limiting: it holds '429' or, in any case, 'rate limit'
NamesRateLimit(msg) == \E i \in DOMAIN msg : msg[i] \in {TXT_URL_429, TXT_RATE}

\* C7: when the first call of generate_image_gemini fails with a message that
\* indicates rate limiting, the rate gate sleeps the 60 s cooldown and calls it
\* exactly once more; when that call fails too the gate returns None and no
\* exception reaches the caller.
C7_RateGateCooldownSingleRetry ==
    (entry = "rategate" /\ GLeaves # <<>>
        /\ GLeaves[1].val.kind = "exc" /\ NamesRateLimit(GLeaves[1].val.msg)) =>
        LET at == LeaveAt(1, 1)
        IN  /\ Len(trace) = at => pc \in {"rg_ret1", "rg_cooldown"}
            /\ Len(trace) > at => IsSleep(trace[at + 1], 60000)
            /\ Len(trace) = at + 1 => pc = "g_start"
            /\ Len(trace) > at + 1 => IsEnter(trace[at + 2], "gemini")
            /\ Len(GEnters) <= 2
            /\ pc = "done" =>
                  /\ Len(GLeaves) = 2
                  /\ ret.by = "rategate" /\ ret.kind # "exc"
                  /\ GLeaves[2].val.kind = "exc" => ret = None("rategate")
                  /\ GLeaves[2].val.kind = "ok" => ret.bytes = GLeaves[2].val.bytes

C7_Witness ==
    /\ entry = "rategate" /\ pc = "done"
    /\ Len(GLeaves) = 2
    /\ GLeaves[1].val.kind = "exc" /\ NamesRateLimit(GLeaves[1].val.msg)
    /\ GLeaves[2].val.kind = "exc"
    /\ ret = None("rategate")

(***************************************************************************)
(* Properties of WhiskClient.generate_with_references and generate_image    *)
(***************************************************************************)
\* generate_with_references has just handed ret to its caller
WReturned == ret.by = "whisk" /\ pc \in {"done", "gi_wret"}

\* the upload attempts, generate requests and downloads so far, in order
WEvents == SelectSeq(trace, LAMBDA e : e.ev \in {"w_upload", "w_generate", "w_fetch"})
WUploads == SelectSeq(trace, LAMBDA e : e.ev = "w_upload")
WGenerates == SelectSeq(trace, LAMBDA e : e.ev = "w_generate")
WFetches == SelectSeq(trace, LAMBDA e : e.ev = "w_fetch")

\* the upload got a media identifier back
UploadOk(e) ==
    e.ev = "w_upload" /\ e.out.sent /\ ~e.out.raised /\ e.out.status = 200 /\ e.out.body # <<>>
\* the generate request got an image URL back
GenerateOk(e) ==
    /\ e.ev = "w_generate" /\ ~e.out.raised /\ e.out.status = 200
    /\ e.out.body # <<>> /\ e.out.body[1] # ""
\* the download got the bytes
FetchOk(e) == e.ev = "w_fetch" /\ ~e.out.raised /\ e.out.status = 200

\* the media identifiers of the uploads of seq that succeeded, in order
RECURSIVE ObtainedIds(_)
ObtainedIds(seq) ==
    IF seq = <<>> THEN <<>>
    ELSE (IF UploadOk(Head(seq)) THEN <<Head(seq).out.body[1]>> ELSE <<>>)
         \o ObtainedIds(Tail(seq))

\* C8: the generate request is never sent with zero media identifiers; when no
\* upload succeeded (or there was nothing to upload) the workflow fails with
\* 'No images uploaded' and no generate request was sent; every upload attempt
\* of a workflow comes before its generate request.
C8_NoGenerateWithoutMedia ==
    /\ \A i \in 1..Len(trace) :
          trace[i].ev = "w_generate" =>
              /\ trace[i].arg.mids # <<>>
              /\ \A j \in 1..Len(trace) :
                    (trace[j].ev = "w_upload" /\ trace[j].arg.wf = trace[i].arg.wf) => j < i
    /\ (WReturned /\ ObtainedIds(WUploads) = <<>>) =>
          /\ ret = Exc("whisk", "WhiskError", <<"No images uploaded">>)
          /\ WGenerates = <<>>
    /\ (pc = "w_generate") => ObtainedIds(WUploads) # <<>>

C8_Witness ==
    /\ WReturned /\ session_tokens /\ oauth_tokens
    /\ Len(WUploads) = 3
    /\ \A i \in 1..3 : WUploads[i].out.sent
    /\ ObtainedIds(WUploads) = <<>>
    /\ ret.kind = "exc"

\* C9: the generate request carries exactly the media identifiers of the uploads
\* that succeeded, in input order, and the uploads are those of the first three
\* reference images, each attempted once; a failed upload is skipped and the
\* request goes on.
C9_GenerateCarriesSurvivingIds ==
    /\ pc = "w_generate" =>
          /\ media_ids = ObtainedIds(WUploads)
          /\ Len(WUploads) = (IF Len(reference_images) < 3 THEN Len(reference_images) ELSE 3)
    /\ \A i \in 1..Len(WUploads) : WUploads[i].key = reference_images[i]
    /\ Len(WUploads) <= 3
    /\ \A i \in 1..Len(WEvents) :
          WEvents[i].ev = "w_generate" =>
              /\ WEvents[i].arg.mids = ObtainedIds(SubSeq(WEvents, 1, i - 1))
              /\ i - 1 = (IF Len(reference_images) < 3 THEN Len(reference_images) ELSE 3)

C9_Witness ==
    /\ Len(reference_images) >= 3
    /\ Len(WUploads) = 3
    /\ UploadOk(WUploads[1]) /\ ~UploadOk(WUploads[2]) /\ UploadOk(WUploads[3])
    /\ WUploads[2].out.status = 200
    /\ WGenerates # <<>>
    /\ WGenerates[1].arg.mids = <<WUploads[1].out.body[1], WUploads[3].out.body[1]>>

\* C10: a workflow attempt issues its requests in the order uploads, one
\* generate request, one download; the download is issued only after the generate
\* request returned an image URL; the attempt hands image bytes to the caller
\* only when an upload, the generate request and the download all succeeded.
C10_UploadGenerateFetchOrder ==
    LET rank(e) == CASE e.ev = "w_upload" -> 1 [] e.ev = "w_generate" -> 2 [] OTHER -> 3
        n == Len(WEvents)
    IN  /\ \A i \in 1..n : \A j \in (i + 1)..n : rank(WEvents[i]) <= rank(WEvents[j])
        /\ Len(WGenerates) <= 1
        /\ Len(WFetches) <= 1
        /\ \A i \in 1..n :
              WEvents[i].ev = "w_fetch" => i > 1 /\ GenerateOk(WEvents[i - 1])
        /\ pc = "gi_fetch" => WGenerates # <<>> /\ GenerateOk(WGenerates[1]) /\ WFetches = <<>>
        /\ (entry = "orchestrator" /\ pc = "done" /\ ret.kind = "ok") =>
              IF GEnters = <<>>
              THEN /\ ObtainedIds(WUploads) # <<>>
                   /\ WGenerates # <<>> /\ GenerateOk(WGenerates[1])
                   /\ WFetches # <<>> /\ FetchOk(WFetches[1])
                   /\ ret.bytes = WFetches[1].out.body[1]
              ELSE /\ Len(GLeaves) = 1
                   /\ GLeaves[1].val.kind = "ok"
                   /\ ret.bytes = GLeaves[1].val.bytes

C10_Witness ==
    /\ entry = "orchestrator" /\ pc = "done" /\ ret.kind = "ok"
    /\ GEnters = <<>>
    /\ Len(WUploads) = 2 /\ ~UploadOk(WUploads[1]) /\ UploadOk(WUploads[2])
    /\ Len(WEvents) = 4
    /\ ret.bytes = <<"imgW">>

\* C11: the generate step is never retried: a workflow attempt issues at most
\* one generate request, with the first OAuth token; when the request times out,
\* fails to connect, is answered with a non-200 status, with an empty list of
\* generated images or with an image that has no URL, the attempt fails right
\* after it, and no further request of the workflow follows.
C11_GenerateNeverRetried ==
    /\ \A i, j \in 1..Len(trace) :
          (trace[i].ev = "w_generate" /\ trace[j].ev = "w_generate"
              /\ trace[i].arg.wf = trace[j].arg.wf) => i = j
    /\ \A i \in 1..Len(trace) :
          trace[i].ev = "w_generate" =>
              /\ trace[i].key = OAuthToken
              /\ i < Len(trace)
              /\ trace[i + 1].ev = "leave" /\ trace[i + 1].val.by = "whisk"
              /\ GenerateOk(trace[i]) <=> trace[i + 1].val.kind = "ok"
              /\ ~GenerateOk(trace[i]) =>
                    /\ trace[i + 1].val.kind = "exc"
                    /\ trace[i + 1].val.type = "WhiskError"
                    /\ \A j \in (i + 1)..Len(trace) :
                          trace[j].ev \notin {"w_upload", "w_generate", "w_fetch"}

C11_Witness ==
    /\ WReturned /\ ret.kind = "exc"
    /\ Len(WGenerates) = 1
    /\ WGenerates[1].out.raised /\ WGenerates[1].out.text = TXT_TIMEOUT
    /\ Len(WGenerates[1].arg.mids) = 2

(***************************************************************************)
(* Properties of generate_image (FallbackOrchestrator)                     *)
(***************************************************************************)
\* generate_image has handed its result to its caller
GIReturned == entry = "orchestrator" /\ pc = "done" /\ ret.by = "orchestrator"

WLeaves == SelectSeq(trace, LAMBDA e : e.ev = "leave" /\ e.val.by = "whisk")
\* the Whisk attempt of the run failed: the workflow raised, or the download did
WorkflowFailed == WLeaves # <<>> /\ WLeaves[1].val.kind = "exc"
DownloadFailed == WFetches # <<>> /\ ~FetchOk(WFetches[1])
WhiskFailed == WorkflowFailed \/ DownloadFailed

\* every request of generate_image_gemini carried the prompt of the caller
FallbackKeptPrompt ==
    \A i \in 1..Len(trace) : trace[i].ev = "g_post" => trace[i].arg.prompt = prompt

\* C12 as stated: with reference images, whenever the Whisk attempt fails at
\* any step, generate_image_gemini is invoked exactly once with the same prompt
\* and, if it succeeds, its image bytes are the result of generate_image.
C12_FallbackResultIsReturned ==
    (GIReturned /\ reference_images # <<>> /\ WhiskFailed) =>
        /\ Len(GEnters) = 1 /\ Len(GLeaves) = 1
        /\ FallbackKeptPrompt
        /\ GLeaves[1].val.kind = "ok" => ret = Ok("orchestrator", GLeaves[1].val.bytes)

\* C12 (amended): with reference images, whenever the Whisk attempt fails at
\* any step (no session token or no upload succeeded, no OAuth token, generate
\* failure, download failure), generate_image_gemini is invoked exactly once
\* with the same prompt; if it returns non-empty image bytes they are the
\* result of generate_image; if it returns empty bytes or raises, generate_image
\* raises WhiskError.  Without a Whisk failure it is not invoked.
C12_FallbackOnceNonEmptyResultReturned ==
    /\ (entry = "orchestrator" /\ reference_images # <<>>) =>
          /\ Len(GEnters) <= 1
          /\ FallbackKeptPrompt
          /\ GEnters # <<>> => WhiskFailed
          /\ (WhiskFailed /\ pc \notin {"gi_wret", "g_start"}) => Len(GEnters) = 1
    /\ (GIReturned /\ reference_images # <<>> /\ WhiskFailed) =>
          /\ Len(GLeaves) = 1
          /\ (GLeaves[1].val.kind = "ok" /\ GLeaves[1].val.bytes # EmptyBytes) =>
                ret = Ok("orchestrator", GLeaves[1].val.bytes)
          /\ (GLeaves[1].val.kind = "exc" \/ GLeaves[1].val.bytes = EmptyBytes) =>
                ret.kind = "exc" /\ ret.type = "WhiskError"

C12_Witness ==
    /\ GIReturned /\ Len(reference_images) = 2
    /\ WGenerates # <<>> /\ ~GenerateOk(WGenerates[1])
    /\ Len(GEnters) = 1
    /\ ret = Ok("orchestrator", <<"imgA">>)

\* C13: for a request with no reference image (neither model_image nor
\* product_image), generate_image never invokes generate_with_references: the
\* first function it enters is generate_image_gemini.
C13_NoReferencesSkipsWhisk ==
    (entry = "orchestrator" /\ model_image = 0 /\ product_image = 0) =>
        \A i \in 1..Len(trace) : ~IsEnter(trace[i], "whisk")

\* what the fallback failed with, as the combined error words it
FallbackCause ==
    IF GLeaves[1].val.kind = "exc" THEN GLeaves[1].val.msg ELSE <<MSG_GEMINI_NO_DATA>>

\* the error of a run in which Whisk was never tried (no reference image) and
\* the fallback failed with gcause
NeverTriedError(gcause) == BothFailed(WhiskError("whisk", <<MSG_W_NO_UPLOADS>>), gcause)

\* C14: when generate_image fails, its error carries both causes, what Whisk
\* failed with and what the fallback failed with, and the error of a run in
\* which Whisk was attempted (reference images given) and failed is never the
\* error of a run in which Whisk was not tried (no reference image) and the
\* fallback failed the same way.
C14_ErrorTellsWhetherWhiskWasTried ==
    (GIReturned /\ ret.kind = "exc") =>
        /\ Len(GLeaves) = 1
        /\ ret = BothFailed(whisk_error, FallbackCause)
        /\ reference_images # <<>> => ret # NeverTriedError(FallbackCause)

(***************************************************************************)
(* Properties of ImageGenerationWorker (BatchPipeline)                     *)
(***************************************************************************)
\* run() has ended
BDone == entry = "batch" /\ pc = "done"
\* run() is between two items, or has ended
BetweenItems == entry = "batch" /\ pc \in {"b_scene", "b_thumb", "done"}

\* the signals of the worker about a scene, about a version
SceneSignal(e) ==
    \/ e.ev = "scene_image_ready"
    \/ e.ev = "progress" /\ e.out.text \in {SAY_SCENE, SAY_WHISK_OK, SAY_WHISK_FAILED,
                                            SAY_USE_GEMINI, SAY_GEMINI_OK, SAY_NO_IMAGE}
ThumbSignal(e) ==
    \/ e.ev = "thumbnail_ready"
    \/ e.ev = "progress" /\ e.out.text \in {SAY_THUMB, SAY_THUMB_OK, SAY_THUMB_NONE,
                                            SAY_THUMB_ERROR}
ItemSignal(e) == SceneSignal(e) \/ ThumbSignal(e)
IsResult(e) == e.ev \in {"scene_image_ready", "thumbnail_ready"}
IsFinished(e) == e.ev = "finished"
\* a progress signal that tells of a failure
SaysFailure(e) ==
    e.ev = "progress" /\ e.out.text \in {SAY_WHISK_FAILED, SAY_NO_IMAGE, SAY_THUMB_NONE,
                                         SAY_THUMB_ERROR, SAY_RUN_ERROR}
\* a request to a provider
ProviderCall(e) == e.ev \in {"g_post", "w_upload", "w_generate", "w_fetch"}

\* the place of the item of an item signal in the input: the scenes, then the versions
ItemNo(e) == IF SceneSignal(e) THEN e.key ELSE Len(scenes) + e.key
Items == Len(scenes) + Len(versions)
ItemsBegun == Len(SelectSeq(trace, BeginsItem))
Results == SelectSeq(trace, IsResult)
Finishes == SelectSeq(trace, IsFinished)
\* an element of the outline was malformed and the outer handler ended the run
RunError == \E j \in 1..Len(trace) : trace[j].ev = "progress" /\ trace[j].out.text = SAY_RUN_ERROR

HasResult(k) == \E j \in 1..Len(trace) : IsResult(trace[j]) /\ ItemNo(trace[j]) = k
HasFailureReport(k) ==
    \E j \in 1..Len(trace) :
        ItemSignal(trace[j]) /\ SaysFailure(trace[j]) /\ ItemNo(trace[j]) = k

\* C15: a failure of one item never ends the run: every item that was
\* processed and gave no result has a progress signal that reports the failure,
\* a run that was neither stopped nor met a malformed element processes every
\* item of the input, and run() returns without an exception.
C15_ItemFailureIsReportedRunGoesOn ==
    entry = "batch" =>
        /\ \A k \in 1..ItemsBegun :
              ((k < ItemsBegun \/ BetweenItems) /\ ~HasResult(k))
                  => (HasFailureReport(k) \/ (RunError /\ k = ItemsBegun))
        /\ (BDone /\ ~should_stop /\ ~RunError) => ItemsBegun = Items
        /\ BDone => ret = None("worker") /\ Len(Finishes) = 1

\* C16: once stop() was called, no item is begun.  When it was called between
\* two items, nothing follows but the terminal signal: no request to a provider,
\* no sleep, no progress and no result, so the results are those emitted before
\* the call.  When it was called within an item, what follows belongs to that
\* item.
C16_NoItemBegunAfterStop ==
    (entry = "batch" /\ should_stop) =>
        /\ stop_seen.events <= Len(trace)
        /\ \A j \in (stop_seen.events + 1)..Len(trace) : ~BeginsItem(trace[j])
        /\ stop_seen.between =>
              /\ \A j \in (stop_seen.events + 1)..Len(trace) : IsFinished(trace[j])
              /\ Results = SelectSeq(SubSeq(trace, 1, stop_seen.events), IsResult)
              /\ BetweenItems
        /\ BDone => Len(Finishes) = 1

C16_Witness ==
    /\ BDone /\ should_stop /\ stop_seen.between
    /\ Items = 3 /\ ItemsBegun = 2
    /\ Len(Results) = 2
    /\ ~RunError

\* the run was cut short by should_stop: it ended with items not begun, and
\* not because of a malformed element
CutShort == BDone /\ should_stop /\ ItemsBegun < Items /\ ~RunError
\* the run processed every item
Complete == BDone /\ ItemsBegun = Items /\ ~RunError

\* C17: the terminal signal of a run cut short by should_stop differs from the
\* terminal signal of a run that processed every item, which is finished(True).
C17_CancelledRunSaysSo ==
    /\ Complete => Len(Finishes) = 1 /\ Finishes[1].out.text = "True"
    /\ CutShort => Len(Finishes) = 1 /\ Finishes[1].out.text # "True"

\* the terminal signal is emitted at most once, and it is the last event
TerminalIsLast ==
    entry = "batch" =>
        /\ Len(Finishes) <= 1
        /\ \A j \in 1..Len(trace) : IsFinished(trace[j]) => j = Len(trace) /\ pc = "done"
        /\ BDone => Len(Finishes) = 1

\* C18: every run of the worker eventually emits the terminal signal, exactly
\* once and after every other event of the run, however it ends: all items
\* processed, stopped, or ended by the outer handler.
C18_EventuallyOneTerminalSignal ==
    /\ []TerminalIsLast
    /\ <>(BDone /\ Len(Finishes) = 1)

C18_Witness ==
    /\ BDone /\ RunError /\ ItemsBegun = 1
    /\ Len(Finishes) = 1 /\ Finishes[1].out.text = "False"
    /\ Len(Results) = 1

\* C19: the items are processed in input order, one at a time: the k-th item
\* begun is item k of the input, every signal about an item is about the item
\* begun last, an item gives at most one result, and so the results are in
\* input order.
C19_ItemsInInputOrder ==
    entry = "batch" =>
        LET begins == {k \in 1..Len(trace) : BeginsItem(trace[k])}
            begun(j) == Cardinality({k \in begins : k <= j})
        IN  /\ \A j \in 1..Len(trace) :
                  ItemSignal(trace[j]) =>
                      /\ ItemNo(trace[j]) = begun(j)
                      /\ ItemNo(trace[j]) <= Items
                      /\ SceneSignal(trace[j]) => trace[j].key <= Len(scenes)
            /\ \A j \in 1..Len(trace) :
                  ProviderCall(trace[j]) => begun(j) >= 1
            /\ \A a, b \in 1..Len(Results) :
                  a < b => ItemNo(Results[a]) < ItemNo(Results[b])

C19_Witness ==
    /\ BDone /\ Items = 3 /\ Len(scenes) = 2
    /\ Len(Results) = 2
    /\ ItemNo(Results[1]) = 1 /\ ItemNo(Results[2]) = 3
    /\ HasFailureReport(2)

\* C20: the delay handed to generate_image_with_rate_limit is 0 for the first
\* item of the run and 8 s for every later item, the versions counted after the
\* scenes; the rate gate sleeps that delay once, before it first calls
\* generate_image_gemini, and does not sleep when the delay is 0.
C20_DelayZeroForFirstItemOnly ==
    entry = "batch" =>
        \A j \in 1..Len(trace) :
            IsEnter(trace[j], "rategate") =>
                /\ j > 1 /\ ItemSignal(trace[j - 1])
                /\ trace[j].dur = (IF ItemNo(trace[j - 1]) = 1 THEN 0 ELSE 8000)
                /\ j + 1 <= Len(trace) =>
                      IF trace[j].dur = 0
                      THEN IsEnter(trace[j + 1], "gemini")
                      ELSE /\ IsSleep(trace[j + 1], trace[j].dur)
                           /\ j + 2 <= Len(trace) => IsEnter(trace[j + 2], "gemini")

C20_Witness ==
    /\ BDone /\ Len(scenes) = 1 /\ Len(versions) = 1
    /\ \E j \in 2..Len(trace) :
          /\ IsEnter(trace[j], "rategate") /\ ThumbSignal(trace[j - 1])
          /\ trace[j].dur = 8000
    /\ \E j \in 2..Len(trace) :
          /\ IsEnter(trace[j], "rategate") /\ SceneSignal(trace[j - 1])
          /\ trace[j].dur = 0

(***************************************************************************)
(* Properties of the progress sink                                         *)
(***************************************************************************)
\* the messages delivered before function f was last entered
SinkAtEntry(f) ==
    LET es == SelectSeq(trace, LAMBDA e : e.ev = "enter" /\ e.val.by = f)
    IN  es[Len(es)].key

\* C21: every failure is announced before it propagates: when a caller handed
\* a callback to generate_image_gemini, to generate_with_references or to
\* generate_image and the function raises, at least one message was delivered
\* to that callback between the entering of the function and the raise.
C21_FailureAnnouncedBeforeItPropagates ==
    has_sink =>
        /\ (GReturned /\ ret.kind = "exc" /\ pc # "gi_gret")
               => sink > SinkAtEntry("gemini")
        /\ (WReturned /\ ret.kind = "exc") => sink > SinkAtEntry("whisk")
        /\ (ret.by = "orchestrator" /\ ret.kind = "exc" /\ pc \in {"done", "b_scene_wret"})
               => sink > SinkAtEntry("orchestrator")

\* the same, of every failure but the one of line 37 (no key)
C21_AnnouncedUnlessNoKeys ==
    has_sink =>
        /\ (GReturned /\ ret.kind = "exc" /\ pc # "gi_gret" /\ keys # <<>>)
               => sink > SinkAtEntry("gemini")
        /\ (WReturned /\ ret.kind = "exc") => sink > SinkAtEntry("whisk")
        /\ (ret.by = "orchestrator" /\ ret.kind = "exc" /\ pc \in {"done", "b_scene_wret"})
               => sink > SinkAtEntry("orchestrator")

(***************************************************************************)
(* Further properties of WhiskClient                                       *)
(***************************************************************************)
\* C24: the payload of the generate request carries PORTRAIT for '9:16',
\* LANDSCAPE for '16:9', SQUARE for '1:1' and PORTRAIT for every other aspect
\* ratio, such as '4:5'; an aspect ratio that is not in the map causes no
\* failure: the request is sent, and when it is answered with an image URL the
\* workflow returns it.
C24_AspectRatioMapping ==
    entry = "whisk" =>
        /\ \A i \in 1..Len(trace) :
              trace[i].ev = "w_generate" =>
                  /\ aspect_ratio = "9:16" => trace[i].arg.aspect = "IMAGE_ASPECT_RATIO_PORTRAIT"
                  /\ aspect_ratio = "16:9" => trace[i].arg.aspect = "IMAGE_ASPECT_RATIO_LANDSCAPE"
                  /\ aspect_ratio = "1:1" => trace[i].arg.aspect = "IMAGE_ASPECT_RATIO_SQUARE"
                  /\ aspect_ratio \notin {"9:16", "16:9", "1:1"}
                        => trace[i].arg.aspect = "IMAGE_ASPECT_RATIO_PORTRAIT"
        /\ (WReturned /\ media_ids # <<>> /\ oauth_tokens) => Len(WGenerates) = 1
        /\ (WReturned /\ WGenerates # <<>> /\ GenerateOk(WGenerates[1]))
              => ret = Ok("whisk", <<IMAGE_URL>>)

C24_Witness ==
    /\ entry = "whisk" /\ WReturned /\ aspect_ratio = "4:5"
    /\ Len(WGenerates) = 1
    /\ WGenerates[1].arg.aspect = "IMAGE_ASPECT_RATIO_PORTRAIT"
    /\ ret.kind = "ok"

\* C25: with no session token configured, generate_with_references fails and
\* the error it raises names the missing upload credential ('No session token
\* available for Whisk upload'), no other cause.
C25_NoSessionTokenIsReportedCause ==
    (entry = "whisk" /\ ~session_tokens /\ WReturned) =>
        /\ ret.kind = "exc"
        /\ ret.msg = <<MSG_W_NO_SESSION>>

\* what it raises instead
C25_NoSessionTokenReportedAsNoUploads ==
    (entry = "whisk" /\ ~session_tokens /\ WReturned) =>
        /\ ret = WhiskError("whisk", <<MSG_W_NO_UPLOADS>>)
        /\ \A i \in 1..Len(trace) : trace[i].ev = "w_upload" => ~trace[i].out.sent

\* every scene that was begun and got further went to generate_image first
WhiskFirst ==
    \A j \in 1..(Len(trace) - 1) :
        (trace[j].ev = "progress" /\ trace[j].out.text = SAY_SCENE)
            => IsEnter(trace[j + 1], "orchestrator")

\* C23: in a batch run with Whisk selected that carries at least one reference
\* image (a model image or a product image), whisk_service.generate_image is
\* attempted first for every scene, before any request to Gemini for that scene.
C23_WhiskFirstWithAnyReference ==
    (entry = "batch" /\ use_whisk /\ (model_paths # <<>> \/ prod_paths # <<>>))
        => WhiskFirst

\* the same, of the runs that carry a model image and a product image
C23_WhiskFirstWithBothReferences ==
    (entry = "batch" /\ use_whisk /\ model_paths # <<>> /\ prod_paths # <<>>)
        => WhiskFirst

\* the request at position j of trace is paced: the item it belongs to is the
\* first of the run, or the full delay was slept within the item before it
Paced(j) ==
    LET b == LastBegin(SubSeq(trace, 1, j))
    IN  \/ b = 0
        \/ ItemNo(trace[b]) = 1
        \/ \E k \in (b + 1)..(j - 1) : IsSleep(trace[k], WORKER_DELAY)

\* C26: in a batch run every request to Gemini for an item other than the
\* first is preceded, within that item, by the full pacing delay of 8 s, the
\* request of the fallback inside whisk_service.generate_image included.
C26_EveryGeminiCallIsPaced ==
    entry = "batch" =>
        \A j \in 1..Len(trace) : trace[j].ev = "g_post" => Paced(j)

\* the same, of the requests made through generate_image_with_rate_limit
C26_RateGateCallsArePaced ==
    entry = "batch" =>
        \A j \in 1..Len(trace) :
            (trace[j].ev = "g_post" /\ \E k \in 1..j : IsEnter(trace[k], "rategate") /\
                                           k > LastBegin(SubSeq(trace, 1, j)))
                => Paced(j)

\* generate_image left with the combined error at position j of trace
BothProvidersFailed(j) ==
    /\ trace[j].ev = "leave"
    /\ trace[j].val.by = "orchestrator"
    /\ trace[j].val.kind = "exc"

\* C27: when generate_image fails for a scene because Whisk and the fallback
\* both failed, the failure is final for that scene: the worker reports it by a
\* progress signal and sends no further request to a provider for that scene,
\* every later request belongs to a later item.
C27_BothFailedIsFinalForItem ==
    entry = "batch" =>
        \A j \in 1..Len(trace) :
            BothProvidersFailed(j) =>
                /\ j < Len(trace) =>
                      (trace[j + 1].ev = "progress" /\ trace[j + 1].out.text = SAY_WHISK_FAILED)
                /\ \A k \in (j + 1)..Len(trace) :
                      ProviderCall(trace[k]) =>
                          \E b \in (j + 1)..(k - 1) : BeginsItem(trace[b])

\* the part of it that holds: the failure is reported
C27_BothFailedIsReported ==
    entry = "batch" =>
        \A j \in 1..Len(trace) :
            (BothProvidersFailed(j) /\ j < Len(trace)) =>
                (trace[j + 1].ev = "progress" /\ trace[j + 1].out.text = SAY_WHISK_FAILED)

\* generate_image_gemini left with 'All API keys exhausted quota' at position j
AllKeysExhausted(j) ==
    /\ trace[j].ev = "leave"
    /\ trace[j].val.by = "gemini"
    /\ trace[j].val.kind = "exc"
    /\ trace[j].val.msg = <<MSG_EXHAUSTED>>

\* the calls of generate_image_gemini begun so far
GeminiCalls == Len(SelectSeq(trace, LAMBDA e : e.ev = "enter" /\ e.val.by = "gemini"))

\* C28: when the first call of generate_image_gemini inside
\* generate_image_with_rate_limit fails because every key is exhausted, the
\* rate gate takes the failure as rate limiting: it sleeps the 60 s cooldown
\* and calls generate_image_gemini once more, so the wait for the retry hint
\* and the cooldown both occur within the request.
C28_ExhaustedKeysGetCooldown ==
    entry = "rategate" =>
        \A j \in 1..Len(trace) :
            (AllKeysExhausted(j) /\ j < Len(trace)
               /\ \A i \in 1..(j - 1) : ~(trace[i].ev = "leave" /\ trace[i].val.by = "gemini")) =>
                /\ trace[j + 1] = Sleep(Ms(RATE_LIMIT_COOLDOWN))
                /\ pc = "done" => GeminiCalls = 2

\* what the rate gate does instead: it returns None at once, whichever call failed so
C28_ExhaustedKeysEndTheRequest ==
    entry = "rategate" =>
        \A j \in 1..Len(trace) :
            (AllKeysExhausted(j) /\ j < Len(trace)) =>
                (trace[j + 1] = Leave(None("rategate")) /\ j + 1 = Len(trace))

\* an answer raise_for_status raises on: neither 200 nor 429
IsErrorStatus(e) == e.ev = "g_post" /\ ~e.out.raised /\ e.out.status \notin {200, 429}

\* C29: an answer with an error status other than 429 to the request of key k
\* (in the pass over the keys) is a failure of that key only: it is kept as
\* last_error; when keys remain the call waits the retry delay and tries key
\* k + 1; when k is the last key the call fails with 'Image generation failed:
\* <that error>'.  Neither the sleep for the retry hint nor the final retry
\* with the first key follows such an answer.
C29_ErrorStatusWaitsThenNextKey ==
    (InGemini \/ GReturned) =>
        LET n == Len(keys)
            len == Len(GSeg)
        IN  \A j \in 1..len :
                (IsErrorStatus(GSeg[j]) /\ ~IsFinalRetry(GSeg, j)) =>
                    LET k == GSeg[j].key
                        text == GSeg[j].out.text
                    IN  /\ k < n =>
                              /\ len = j =>
                                    pc = "g_sleep_retry" /\ last_error = ReqError(text)
                              /\ len >= j + 1 => IsSleep(GSeg[j + 1], RETRY_DELAY)
                              /\ len = j + 1 => pc = "g_post" /\ key_idx = k + 1
                              /\ len >= j + 2 =>
                                    /\ GSeg[j + 2].ev = "g_post"
                                    /\ GSeg[j + 2].key = keys[k + 1]
                                    /\ ~IsFinalRetry(GSeg, j + 2)
                        /\ k = n =>
                              /\ len = j
                              /\ GReturned
                              /\ last_error = ReqError(text)
                              /\ ret = Exc("gemini", "ImageGenError", <<MSG_FAILED, text>>)

C29_Witness ==
    /\ GReturned /\ Len(keys) = 2 /\ Len(GPosts) = 2 /\ Len(GSleeps) = 1
    /\ IsErrorStatus(GPosts[1]) /\ IsErrorStatus(GPosts[2])
    /\ ErrorIs(ret, MSG_FAILED)

\* a request that carries clientContext.workflowId and sessionId
CarriesPair(e) == e.ev \in {"w_upload", "w_generate"} /\ e.out.sent

\* the calls of generate_with_references begun before event j
WorkflowCallOf(j) ==
    Cardinality({i \in 1..j : trace[i].ev = "enter" /\ trace[i].val.by = "whisk"})

\* C30: within one call of generate_with_references every upload request and
\* the generate request carry the same (workflowId, sessionId) pair, made once
\* when the call begins; the requests of two different calls never carry the
\* same pair.
C30_OnePairPerWorkflowCall ==
    LET requests == {i \in 1..Len(trace) : CarriesPair(trace[i])}
        begins == {k \in 1..Len(trace) : trace[k].ev = "enter" /\ trace[k].val.by = "whisk"}
    IN  \A i \in requests :
            \* the pair drawn when the call of request i began
            /\ trace[i].arg.wf = Cardinality({k \in begins : k < i})
            \* the same pair exactly when no call began in between
            /\ \A j \in requests :
                  i < j => ((trace[i].arg.wf = trace[j].arg.wf)
                               <=> ~\E k \in begins : i < k /\ k < j)

\* two calls in one run, the second with its uploads and its generate request
C30_Witness ==
    /\ entry = "batch"
    /\ \E g \in 1..Len(trace) :
          /\ trace[g].ev = "w_generate" /\ trace[g].out.sent
          /\ WorkflowCallOf(g) = 2
          /\ Cardinality({u \in 1..g : trace[u].ev = "w_upload" /\ trace[u].out.sent
                                          /\ WorkflowCallOf(u) = 2}) = 2
          /\ \E h \in 1..g :
                trace[h].ev = "w_generate" /\ trace[h].out.sent /\ WorkflowCallOf(h) = 1

(***************************************************************************)
(* Further properties of generate_image_gemini and the rate gate           *)
(***************************************************************************)
\* a request the loop goes on after: answered 429, failed, or an error status
IsRetryable(e) == Is429(e) \/ IsNetworkFailure(e) \/ IsErrorStatus(e)

\* the requests of one call, with N >= 1 keys: at most N + 1, the first N with
\* the keys in list order, each after a request that was answered 429 or failed
\* in a way the loop retries, and the one more with the first key after the
\* last key was answered 429
RequestsBounded ==
    ((InGemini \/ GReturned) /\ keys # <<>>) =>
        LET n == Len(keys)
            m == Len(GPosts)
        IN  /\ m <= n + 1
            /\ \A i \in 1..m : i <= n => GPosts[i].key = keys[i]
            /\ \A i \in 2..m : IsRetryable(GPosts[i - 1])
            /\ m = n + 1 => Is429(GPosts[n]) /\ GPosts[n + 1].key = keys[1]
            /\ GReturned => ret.kind \in {"ok", "exc"}

\* C32: one call of generate_image_gemini with N >= 1 keys sends at most N + 1
\* requests: the keys in list order, each at most once in the pass over the
\* keys, a key only after every earlier key was answered 429 or failed in a way
\* that is retried, and one more request, with the first key, only when the
\* last key was answered 429.  So the call always ends, with an image or an
\* error.
C32_AtMostOneRequestPerKeyAndOne ==
    /\ []RequestsBounded
    /\ <>(pc = "done")

C32_Witness ==
    /\ GReturned /\ Len(keys) = 2 /\ Len(GPosts) = 3
    /\ IsNetworkFailure(GPosts[1]) /\ Is429(GPosts[2])
    /\ GPosts[3].key = keys[1]

\* C33: when the first call of generate_image_gemini inside
\* generate_image_with_rate_limit fails with a message that does not indicate
\* rate limiting, the rate gate returns None at once: no 60 s cooldown, no
\* second call.  Whatever happens, the rate gate calls generate_image_gemini
\* at most twice.
C33_OtherFailureEndsWithoutRetry ==
    entry = "rategate" =>
        /\ GeminiCalls <= 2
        /\ (GLeaves # <<>> /\ GLeaves[1].val.kind = "exc"
              /\ ~NamesRateLimit(GLeaves[1].val.msg)) =>
              /\ GeminiCalls = 1
              \* nothing follows the failure but the return of the rate gate
              /\ pc = "rg_ret1" => IsLeave(trace[Len(trace)], "gemini")
              /\ pc = "done" =>
                    /\ ret = None("rategate")
                    /\ IsLeave(trace[Len(trace) - 1], "gemini")
                    /\ IsLeave(trace[Len(trace)], "rategate")
              /\ pc \in {"rg_ret1", "done"}

C33_Witness ==
    /\ entry = "rategate" /\ pc = "done" /\ ret = None("rategate")
    /\ GeminiCalls = 1
    /\ ErrorIs(GLeaves[1].val, MSG_NO_IMAGE)

(***************************************************************************)
(* Further properties of generate_image                                    *)
(***************************************************************************)
\* the positions of trace where Whisk failed: the workflow raised, or the
\* download failed
WhiskFailures ==
    {j \in 1..Len(trace) :
        \/ IsLeave(trace[j], "whisk") /\ trace[j].val.kind = "exc"
        \/ trace[j].ev = "w_fetch" /\ ~FetchOk(trace[j])}

\* C34: generate_image calls generate_image_gemini at most once, and only
\* after the Whisk attempt failed; when the workflow and the download succeed
\* no request goes to Gemini and the bytes returned are the bytes downloaded.
C34_FallbackOnlyAfterWhiskFailure ==
    entry = "orchestrator" =>
        /\ Len(GEnters) <= 1
        /\ \A j \in 1..Len(trace) :
              (IsEnter(trace[j], "gemini") \/ trace[j].ev = "g_post") =>
                  \E f \in WhiskFailures : f < j
        /\ (GIReturned /\ WFetches # <<>> /\ FetchOk(WFetches[1])) =>
              /\ WLeaves # <<>> /\ WLeaves[1].val.kind = "ok"
              /\ GEnters = <<>>
              /\ \A j \in 1..Len(trace) : trace[j].ev # "g_post"
              /\ ret = Ok("orchestrator", WFetches[1].out.body[1])

C34_Witness ==
    /\ GIReturned /\ Len(reference_images) = 2
    /\ WFetches # <<>> /\ FetchOk(WFetches[1])
    /\ ret = Ok("orchestrator", FETCHED)
    /\ GEnters = <<>>

(***************************************************************************)
(* Further properties of ImageGenerationWorker                             *)
(***************************************************************************)
\* the position where the item of event j began, 0 before the first item
BeginOf(j) ==
    LET begun == {k \in 1..j : BeginsItem(trace[k])}
    IN  IF begun = {} THEN 0
        ELSE CHOOSE k \in begun : \A m \in begun : m <= k
\* event j belongs to version i
InVersion(j, i) == BeginOf(j) > 0 /\ IsProgress(trace[BeginOf(j)], SAY_THUMB, i)

\* C31: thumbnail_ready is emitted for a version only when the rate gate gave an
\* image and the overlay step worked, and carries what the overlay step made of
\* that image.  When the rate gate gives nothing, or the overlay step raises,
\* no thumbnail_ready is emitted for the version, a progress signal tells of
\* the failure, and the run goes on with the next version (or ends, after the
\* last version or a stop).
C31_ThumbnailOnlyAfterOverlay ==
    entry = "batch" =>
        \A j \in 1..Len(trace) :
            /\ trace[j].ev = "thumbnail_ready" =>
                  /\ j > 1 /\ IsLeave(trace[j - 1], "rategate")
                  /\ Truthy(trace[j - 1].val)
                  /\ trace[j].val.bytes = Overlaid(trace[j - 1].val.bytes)
                  /\ InVersion(j, trace[j].key)
            /\ (IsLeave(trace[j], "rategate") /\ j < Len(trace)) =>
                  LET b == BeginOf(j)
                      i == trace[b].key
                      failed == \/ IsProgress(trace[j + 1], SAY_THUMB_NONE, i)
                                \/ IsProgress(trace[j + 1], SAY_THUMB_ERROR, i)
                  IN  (b > 0 /\ trace[b].out.text = SAY_THUMB) =>
                      /\ ~Truthy(trace[j].val) => IsProgress(trace[j + 1], SAY_THUMB_NONE, i)
                      /\ Truthy(trace[j].val) =>
                            \/ trace[j + 1].ev = "thumbnail_ready" /\ trace[j + 1].key = i
                            \/ IsProgress(trace[j + 1], SAY_THUMB_ERROR, i)
                      /\ failed =>
                            /\ \A k \in 1..Len(trace) :
                                  ~(trace[k].ev = "thumbnail_ready" /\ trace[k].key = i)
                            /\ j + 2 <= Len(trace) =>
                                  \/ IsProgress(trace[j + 2], SAY_THUMB, i + 1)
                                  \/ /\ IsFinished(trace[j + 2])
                                     /\ trace[j + 2].out.text = "True"
                                     /\ i = Len(versions) \/ should_stop
                            /\ (j + 1 = Len(trace) /\ i < Len(versions) /\ ~should_stop) =>
                                  pc = "b_thumb" /\ b_i = i + 1

\* the overlay step failed for the first version, the second version is ready
C31_Witness ==
    /\ BDone /\ Len(versions) = 2
    /\ \E j \in 1..Len(trace) : IsProgress(trace[j], SAY_THUMB_ERROR, 1)
    /\ \E j \in 1..Len(trace) : trace[j].ev = "thumbnail_ready" /\ trace[j].key = 2
    /\ ~\E j \in 1..Len(trace) : trace[j].ev = "thumbnail_ready" /\ trace[j].key = 1

\* C35: whenever the worker says 'Whisk ✓' for a scene, the image it reports
\* for that scene was made by Whisk: it is what the download of the workflow's
\* image gave, and no request went to Gemini for the scene.
C35_WhiskOkMeansWhiskImage ==
    entry = "batch" =>
        \A j \in 1..Len(trace) :
            (trace[j].ev = "progress" /\ trace[j].out.text = SAY_WHISK_OK) =>
                /\ \A k \in (BeginOf(j) + 1)..j : trace[k].ev # "g_post"
                /\ \E k \in (BeginOf(j) + 1)..j :
                      /\ FetchOk(trace[k])
                      /\ j < Len(trace) => trace[j + 1].val.bytes = trace[k].out.body[1]

\* what holds: the image reported is the one generate_image returned
C35_WhiskOkReportsOrchestratorResult ==
    entry = "batch" =>
        \A j \in 1..Len(trace) :
            (trace[j].ev = "progress" /\ trace[j].out.text = SAY_WHISK_OK) =>
                /\ j > 1 /\ IsLeave(trace[j - 1], "orchestrator")
                /\ Truthy(trace[j - 1].val)
                /\ j < Len(trace) =>
                      /\ trace[j + 1].ev = "scene_image_ready"
                      /\ trace[j + 1].val.bytes = trace[j - 1].val.bytes

\* the items of the outline in the order of the run, and the place of the
\* first malformed one (0 when every item is well formed)
AllItems == scenes \o versions
FirstMalformed ==
    IF \E k \in 1..Len(AllItems) : AllItems[k] = MALFORMED
    THEN CHOOSE k \in 1..Len(AllItems) :
            /\ AllItems[k] = MALFORMED
            /\ \A m \in 1..(k - 1) : AllItems[m] # MALFORMED
    ELSE 0

\* C36: the terminal signal is finished(True) whenever no exception escapes
\* the loops over the items, also when no item gave an image; it is
\* finished(False) only when an exception escaped them (an element of the
\* outline that cannot be read), and then the items after that element are not
\* processed.
C36_SuccessUnlessExceptionEscapes ==
    BDone =>
        /\ Len(Finishes) = 1
        /\ Finishes[1].out.text \in {"True", "False"}
        /\ Finishes[1].out.text = "False" <=> RunError
        /\ RunError =>
              /\ FirstMalformed > 0
              /\ trace[Len(trace) - 1].ev = "progress"
              /\ trace[Len(trace) - 1].out.text = SAY_RUN_ERROR
              \* a scene is read before its first signal, a version after it
              /\ ItemsBegun = (IF FirstMalformed <= Len(scenes)
                               THEN FirstMalformed - 1 ELSE FirstMalformed)
              /\ \A j \in 1..Len(trace) :
                    (ItemSignal(trace[j]) \/ ProviderCall(trace[j])) =>
                        /\ BeginOf(j) > 0
                        /\ ItemNo(trace[BeginOf(j)]) <= FirstMalformed
                        /\ ItemNo(trace[BeginOf(j)]) = FirstMalformed => BeginsItem(trace[j])
        /\ (~RunError /\ ~should_stop) => FirstMalformed = 0

\* a run of three items that gave no image ends with finished(True)
C36_Witness ==
    /\ BDone /\ Items = 3 /\ ItemsBegun = 3 /\ ~should_stop
    /\ Results = <<>>
    /\ Finishes[1].out.text = "True"

\* a malformed first scene ends the run, two items are left unprocessed
C36_WitnessFailure ==
    /\ BDone /\ Items = 3 /\ FirstMalformed = 1
    /\ Finishes[1].out.text = "False"

\* C37: the aspect ratio chosen for a batch run decides the aspect ratio of
\* the payload of Whisk's generate request by the fixed mapping: a run with
\* '16:9' sends LANDSCAPE, a run with '1:1' sends SQUARE.
C37_RunRatioReachesPayload ==
    entry = "batch" =>
        \A j \in 1..Len(trace) :
            (trace[j].ev = "w_generate" /\ trace[j].out.sent) =>
                /\ cfg_ratio = "16:9" => trace[j].arg.aspect = "IMAGE_ASPECT_RATIO_LANDSCAPE"
                /\ cfg_ratio = "1:1" => trace[j].arg.aspect = "IMAGE_ASPECT_RATIO_SQUARE"

\* what the requests of a batch run carry, whatever ratio was chosen
C37_BatchPayloadIsPortrait ==
    entry = "batch" =>
        \A j \in 1..Len(trace) :
            (trace[j].ev = "w_generate" /\ trace[j].out.sent) =>
                trace[j].arg.aspect = "IMAGE_ASPECT_RATIO_PORTRAIT"

\* a request of a provider that gave what was asked for: an image from Gemini,
\* the bytes of the image from the download of Whisk
GaveImage(e) == Is200WithImage(e) \/ FetchOk(e)

\* C38: every scene gives at most one scene_image_ready and every version at
\* most one thumbnail_ready; a scene_image_ready carries image bytes that are
\* not empty; and an item for which every request to a provider failed gives
\* no result.
C38_AtMostOneResultPerItem ==
    entry = "batch" =>
        LET results == {j \in 1..Len(trace) : IsResult(trace[j])}
        IN  /\ \A a, b \in results :
                  (a < b /\ trace[a].ev = trace[b].ev) => trace[a].key # trace[b].key
            /\ \A j \in results :
                  /\ trace[j].ev = "scene_image_ready" =>
                        trace[j].val.bytes \notin {EmptyBytes, NoBytes}
                  /\ LET b == BeginOf(j)
                     IN  b > 0 /\ \E k \in (b + 1)..(j - 1) : GaveImage(trace[k])

\* of three items the first gave a result; for the second the download of
\* Whisk failed and no key was there for Gemini, and it gave none
C38_Witness ==
    /\ BDone /\ Items = 3 /\ ItemsBegun = 3
    /\ HasResult(1) /\ ~HasResult(2)
    /\ \E j \in 1..Len(trace) :
          /\ trace[j].ev = "w_fetch" /\ ~FetchOk(trace[j])
          /\ BeginOf(j) > 0 /\ ItemNo(trace[BeginOf(j)]) = 2

(***************************************************************************)
(* Properties of the panel                                                 *)
(***************************************************************************)
\* C22: at most one provider call is in flight at any moment, and no second
\* image run is started while one is running: at most one image worker has a
\* run() that has not returned.
C22_OneRunOneCallInFlight ==
    entry = "panel" =>
        /\ Cardinality(InFlight) <= 1
        /\ Cardinality(Running) <= 1
====
